---- MODULE Spec2Model ----
(***************************************************************************)
(* A model of the octos pipeline execution engine: RunPipelineWithCallbacks *)
(* with its checkpoint store (state.go), artifact store, condition          *)
(* evaluator, interpolator and prompt composer.                             *)
(*                                                                          *)
(* Go strings are TLA+ strings (TLC evaluates Len, SubSeq and \o on them);  *)
(* Go maps are functions whose DOMAIN is the key set, and every `range`     *)
(* over a map takes its keys in an order the action chooses.                *)
(***************************************************************************)
EXTENDS Integers, Sequences, FiniteSets, TLC

(***************************************************************************)
(* Bounds of the model.                                                     *)
(***************************************************************************)
\* Number of program launches (octos invocations) in one behaviour.
MaxRuns == 2

\* How often one call of a function studied alone is evaluated.
MaxEvals == 2

\* The longest step list of the definitions given to LoadPipeline.
MaxSteps == 2

\* The most saves made before an artifact is loaded back.
MaxSaves == 2

\* Modification times are 1..MaxTime.
MaxTime == 2

\* The most pieces an agent's raw output is put together from.
MaxChunks == 3

\* The launches of the program when a record outlives a run that wrote none.
MaxLaunches == 3

\* The largest --loop limit; without a limit the restarts stop at this count.
MaxLoop == 2

\* The most window-size events the terminal sends.
MaxResizes == 2

(***************************************************************************)
(* package strings / path/filepath, as far as the engine uses them.         *)
(***************************************************************************)
Drop(s, n) == SubSeq(s, n + 1, Len(s))

HasPrefix(s, p) == Len(s) >= Len(p) /\ SubSeq(s, 1, Len(p)) = p

HasSuffix(s, p) == Len(s) >= Len(p) /\ SubSeq(s, Len(s) - Len(p) + 1, Len(s)) = p

\* strings.Index: the 0-based offset of the first occurrence, or -1.
Index(s, sub) ==
    LET hits == {k \in 0..(Len(s) - Len(sub)) : SubSeq(s, k + 1, k + Len(sub)) = sub}
    IN  IF hits = {} THEN -1 ELSE CHOOSE k \in hits : \A h \in hits : k <= h

\* strings.LastIndex.
LastIndex(s, sub) ==
    LET hits == {k \in 0..(Len(s) - Len(sub)) : SubSeq(s, k + 1, k + Len(sub)) = sub}
    IN  IF hits = {} THEN -1 ELSE CHOOSE k \in hits : \A h \in hits : k >= h

Contains(s, sub) == Index(s, sub) >= 0

\* strings.ReplaceAll for a non-empty old: non-overlapping, left to right.
RECURSIVE ReplaceAll(_, _, _)
ReplaceAll(s, old, new) ==
    LET k == Index(s, old)
    IN  IF k < 0 THEN s
        ELSE SubSeq(s, 1, k) \o new \o ReplaceAll(Drop(s, k + Len(old)), old, new)

\* strings.SplitN(s, sep, 2): one part when sep does not occur, else two.
SplitN2(s, sep) ==
    LET k == Index(s, sep)
    IN  IF k < 0 THEN <<s>> ELSE <<SubSeq(s, 1, k), Drop(s, k + Len(sep))>>

RECURSIVE TrimLeft(_, _)
TrimLeft(s, cutset) ==
    IF Len(s) > 0 /\ SubSeq(s, 1, 1) \in cutset THEN TrimLeft(Drop(s, 1), cutset) ELSE s

RECURSIVE TrimRight(_, _)
TrimRight(s, cutset) ==
    IF Len(s) > 0 /\ SubSeq(s, Len(s), Len(s)) \in cutset
    THEN TrimRight(SubSeq(s, 1, Len(s) - 1), cutset)
    ELSE s

\* strings.Trim(s, cutset), the cutset given as a set of one-character strings.
Trim(s, cutset) == TrimRight(TrimLeft(s, cutset), cutset)

\* The cutset "' \"" of evaluateCondition.
QuoteCutset == {"'", " ", "\""}

\* strings.TrimSpace (the ASCII white space).
TrimSpace(s) == Trim(s, {" ", "\t", "\n", "\r"})

UpperLetters == "ABCDEFGHIJKLMNOPQRSTUVWXYZ"
LowerLetters == "abcdefghijklmnopqrstuvwxyz"

RECURSIVE ToLower(_)
ToLower(s) ==
    IF Len(s) = 0 THEN s
    ELSE LET c == SubSeq(s, 1, 1)
             k == Index(UpperLetters, c)
         IN  (IF k >= 0 THEN SubSeq(LowerLetters, k + 1, k + 1) ELSE c) \o ToLower(Drop(s, 1))

\* filepath.Base for a non-empty path without trailing separators.
Base(path) == Drop(path, LastIndex(path, "/") + 1)

\* filepath.Ext: the suffix from the last dot of the last path element.
Ext(path) ==
    LET b == Base(path)
        k == LastIndex(b, ".")
    IN  IF k < 0 THEN "" ELSE Drop(b, k)

TrimSuffix(s, suffix) ==
    IF HasSuffix(s, suffix) THEN SubSeq(s, 1, Len(s) - Len(suffix)) ELSE s

(***************************************************************************)
(* Go maps.                                                                 *)
(***************************************************************************)
EmptyMap == <<>>

MapPut(m, k, v) == [x \in (DOMAIN m) \cup {k} |-> IF x = k THEN v ELSE m[x]]

\* The orders in which a `range` may visit the keys of m.
KeyOrders(m) ==
    LET n == Cardinality(DOMAIN m)
    IN  {f \in [1..n -> DOMAIN m] : \A a, b \in 1..n : f[a] = f[b] => a = b}

(***************************************************************************)
(* The pipeline definitions of the model (Pipeline, Step).                  *)
(* A context value is [list |-> FALSE, v |-> <string>] for a scalar and     *)
(* [list |-> TRUE, v |-> <sequence of strings>] for a []any.                *)
(***************************************************************************)
Scalar(text) == [list |-> FALSE, v |-> text]
List(items) == [list |-> TRUE, v |-> items]

MkStep(name, promptText, saveTo, loadFrom, when) ==
    [Name |-> name, Prompt |-> promptText, SaveTo |-> saveTo, LoadFrom |-> loadFrom, When |-> when]

\* analyze saves its output as plan.txt; fix loads it back when analyze
\* reported an issue; deploy refers to the loaded artifact in its condition.
PipeA ==
    [File    |-> "flows/pipeline.yaml",
     Context |-> [rules |-> List(<<"be brief">>)],
     Steps   |-> << MkStep("analyze", "Analyze. {{context.rules}}", "plan.txt", "", ""),
                    MkStep("fix", "Fix {{analyze.output}}", "", "plan.txt",
                           "{{analyze.output}} contains issue"),
                    MkStep("deploy", "Deploy {{fix.output}}", "", "",
                           "{{artifact.plan}} contains issue") >>]

\* The same pipeline file after an edit that removed the last two steps.
PipeB ==
    [File    |-> "flows/pipeline.yaml",
     Context |-> [rules |-> List(<<"be brief">>)],
     Steps   |-> << MkStep("analyze", "Analyze. {{context.rules}}", "plan.txt", "", "") >>]

Pipelines == {PipeA, PipeB}

\* A review in two steps: fix runs when analyze reported an issue.
PipeReview ==
    [File    |-> "flows/review.yaml",
     Context |-> EmptyMap,
     Steps   |-> << MkStep("analyze", "Analyze the code", "", "", ""),
                    MkStep("fix", "Fix it", "", "", "{{analyze.output}} contains issue") >>]

\* What a successful agent process may do: the text it prints (already
\* sanitized) and whether it changes files of the working tree.
AgentRuns == {[out |-> "Issue found", changed |-> TRUE], [out |-> "all good", changed |-> FALSE]}

\* implement runs when analyze spoke of a cache; it loads what analyze saved
\* and refers to it in its prompt.
PipeArtifact ==
    [File    |-> "flows/artifact.yaml",
     Context |-> EmptyMap,
     Steps   |-> << MkStep("analyze", "Analyze the code", "analysis.txt", "", ""),
                    MkStep("implement", "Implement based on {{artifact.analysis}}", "",
                           "analysis.txt", "{{analyze.output}} contains cache") >>]

ArtifactRuns == {[out |-> "use a cache", changed |-> TRUE], [out |-> "done", changed |-> FALSE]}

\* What the agent of the review may print.
ReviewRuns == {[out |-> "no issues found", changed |-> FALSE],
               [out |-> "all good", changed |-> FALSE],
               [out |-> "Found an ISSUE", changed |-> TRUE]}

(***************************************************************************)
(* evaluateCondition, interpolate, buildPrompt.                             *)
(***************************************************************************)
\* Faulty variant: only the first occurrence of each placeholder is replaced.
RECURSIVE SubstOutputsOnce(_, _, _)
SubstOutputsOnce(text, outs, ord) ==
    IF Len(ord) = 0 THEN text
    ELSE LET old == "{{" \o Head(ord) \o ".output}}"
             at == Index(text, old)
             once == IF at < 0 THEN text
                     ELSE SubSeq(text, 1, at) \o outs[Head(ord)] \o Drop(text, at + Len(old))
         IN  SubstOutputsOnce(once, outs, Tail(ord))

\* for name, output := range outputs { ReplaceAll(.., "{{name.output}}", output) }
RECURSIVE SubstOutputs(_, _, _)
SubstOutputs(text, outs, ord) ==
    IF Len(ord) = 0 THEN text
    ELSE SubstOutputs(ReplaceAll(text, "{{" \o Head(ord) \o ".output}}", outs[Head(ord)]),
                      outs, Tail(ord))

\* for name, content := range artifacts { ReplaceAll(.., "{{artifact.name}}", content) }
RECURSIVE SubstArtifacts(_, _, _)
SubstArtifacts(text, arts, ord) ==
    IF Len(ord) = 0 THEN text
    ELSE SubstArtifacts(ReplaceAll(text, "{{artifact." \o Head(ord) \o "}}", arts[Head(ord)]),
                        arts, Tail(ord))

\* Faulty variant: contains holds only when the two sides are the same text.
EvalSubstitutedExact(cond) ==
    IF Contains(cond, " contains ")
    THEN LET parts == SplitN2(cond, " contains ")
         IN  ToLower(Trim(parts[1], QuoteCutset)) = ToLower(Trim(parts[2], QuoteCutset))
    ELSE IF Contains(cond, " equals ")
    THEN LET parts == SplitN2(cond, " equals ")
         IN  Trim(parts[1], QuoteCutset) = Trim(parts[2], QuoteCutset)
    ELSE IF cond = "not_empty" \/ HasSuffix(cond, " not_empty")
    THEN TrimSpace(cond) # "" /\ cond # "not_empty"
    ELSE TRUE

\* Faulty variant: a text of none of the three forms is false.
EvalSubstitutedStrict(cond) ==
    IF Contains(cond, " contains ")
    THEN LET parts == SplitN2(cond, " contains ")
         IN  Contains(ToLower(Trim(parts[1], QuoteCutset)), ToLower(Trim(parts[2], QuoteCutset)))
    ELSE IF Contains(cond, " equals ")
    THEN LET parts == SplitN2(cond, " equals ")
         IN  Trim(parts[1], QuoteCutset) = Trim(parts[2], QuoteCutset)
    ELSE IF cond = "not_empty" \/ HasSuffix(cond, " not_empty")
    THEN TrimSpace(cond) # "" /\ cond # "not_empty"
    ELSE FALSE

\* The three recognised forms, tried on the substituted text in this order.
EvalSubstituted(cond) ==
    IF Contains(cond, " contains ")
    THEN LET parts == SplitN2(cond, " contains ")
         IN  Contains(ToLower(Trim(parts[1], QuoteCutset)), ToLower(Trim(parts[2], QuoteCutset)))
    ELSE IF Contains(cond, " equals ")
    THEN LET parts == SplitN2(cond, " equals ")
         IN  Trim(parts[1], QuoteCutset) = Trim(parts[2], QuoteCutset)
    ELSE IF cond = "not_empty" \/ HasSuffix(cond, " not_empty")
    THEN TrimSpace(cond) # "" /\ cond # "not_empty"
    ELSE TRUE

\* oOrd, aOrd: the orders in which the two range loops visit their maps.
evaluateCondition(condition, outs, arts, oOrd, aOrd) ==
    IF condition = "" THEN TRUE
    ELSE EvalSubstituted(SubstArtifacts(SubstOutputs(condition, outs, oOrd), arts, aOrd))

\* Every result evaluateCondition can give for these maps.
ConditionResults(condition, outs, arts) ==
    {evaluateCondition(condition, outs, arts, o, a) : o \in KeyOrders(outs), a \in KeyOrders(arts)}

\* fmt.Sprintf("%v", v) of a context value.
RECURSIVE JoinWith(_, _)
JoinWith(items, sep) ==
    IF Len(items) = 0 THEN ""
    ELSE IF Len(items) = 1 THEN items[1]
    ELSE items[1] \o sep \o JoinWith(Tail(items), sep)

Sprint(val) == IF val.list THEN "[" \o JoinWith(val.v, " ") \o "]" ELSE val.v

interpolate(text, global, outs, oOrd) ==
    LET result == SubstOutputs(text, outs, oOrd)
    IN  IF "rules" \in DOMAIN global /\ global["rules"].list
        THEN LET rules == global["rules"].v
                 rulesList == [k \in 1..Len(rules) |-> "- " \o rules[k]]
             IN  ReplaceAll(result, "{{context.rules}}", JoinWith(rulesList, "\n"))
        ELSE result

RECURSIVE GlobalLines(_, _)
GlobalLines(global, ord) ==
    IF Len(ord) = 0 THEN ""
    ELSE Head(ord) \o ": " \o Sprint(global[Head(ord)]) \o "\n" \o GlobalLines(global, Tail(ord))

RECURSIVE OutputBlocks(_, _)
OutputBlocks(outs, ord) ==
    IF Len(ord) = 0 THEN ""
    ELSE "[" \o Head(ord) \o "]:\n" \o outs[Head(ord)] \o "\n\n" \o OutputBlocks(outs, Tail(ord))

buildPrompt(global, outs, newTask, gOrd, oOrd) ==
    "=== CONTEXTO GLOBAL ===\n" \o GlobalLines(global, gOrd)
    \o (IF DOMAIN outs # {}
        THEN "\n=== OUTPUT PASOS ANTERIORES ===\n" \o OutputBlocks(outs, oOrd)
        ELSE "")
    \o "=== NUEVA TAREA ===\n" \o newTask

\* Every result of interpolate and of buildPrompt, over the orders of their
\* range loops.
Interpolations(text, global, outs) ==
    {interpolate(text, global, outs, o) : o \in KeyOrders(outs)}

BuiltPrompts(global, outs, newTask) ==
    {buildPrompt(global, outs, newTask, g, o) : g \in KeyOrders(global), o \in KeyOrders(outs)}

\* Every text the engine can send for a step.
ComposedPrompts(promptText, global, outs) ==
    UNION {BuiltPrompts(global, outs, t) : t \in Interpolations(promptText, global, outs)}

(***************************************************************************)
(* LoadPipeline and Validate. A definition is what yaml.Unmarshal made of    *)
(* the file; an error is its message, "" for nil. The repository holds two  *)
(* LoadPipeline: one calls Validate, the other does not.                     *)
(***************************************************************************)
RECURSIVE ValidateSteps(_, _)
ValidateSteps(steps, n) ==
    IF n > Len(steps) THEN ""
    ELSE IF steps[n].Name = "" THEN "step " \o ToString(n) \o ": name is required"
    ELSE IF steps[n].Prompt = ""
    THEN "step " \o ToString(n) \o " (" \o steps[n].Name \o "): prompt is required"
    ELSE ValidateSteps(steps, n + 1)

Validate(p) ==
    IF p.Agent.Cmd = "" THEN "agent.cmd is required"
    ELSE IF Len(p.Steps) = 0 THEN "at least one step is required"
    ELSE ValidateSteps(p.Steps, 1)

\* validates: the LoadPipeline that calls Validate is the one built;
\* mkdirOk: .octos/artifacts can be made.
LoadPipeline(p, validates, mkdirOk) ==
    IF validates /\ Validate(p) # "" THEN [err |-> Validate(p), loaded |-> FALSE]
    ELSE IF ~mkdirOk THEN [err |-> "mkdir .octos/artifacts", loaded |-> FALSE]
    ELSE [err |-> "", loaded |-> TRUE]

\* AgentConfig; a *AgentConfig is a sequence: empty for nil, else one record.
AgentConfig(cmd, args) == [Cmd |-> cmd, Args |-> args]

\* part_000, lines 223-227: the agent a step is run with, the step's own
\* when the pointer is set, else the pipeline's.
ResolveAgent(p, step) == IF step.Agent # <<>> THEN step.Agent[1] ELSE p.Agent

(***************************************************************************)
(* state.go: the checkpoint store. stateDir maps the path of every file in  *)
(* .octos/state to its content: a serialized PipelineState, or bytes that   *)
(* are no JSON object (what a failed os.WriteFile can leave behind).        *)
(***************************************************************************)
getStateDir == ".octos/state"

getStateFile(pipelineFile) == getStateDir \o "/" \o Base(pipelineFile) \o ".json"

\* json.MarshalIndent of a PipelineState: the JSON object, by its keys. The
\* texts of the model are valid UTF-8, which Marshal writes unchanged; the
\* two time stamps are left out.
Marshal(state) ==
    [kind |-> "json", pipeline_file |-> state.PipelineFile,
     last_completed_step |-> state.LastCompletedStep, outputs |-> state.Outputs]

Garbage == [kind |-> "garbage"]

Unmarshal(data) ==
    [PipelineFile |-> data.pipeline_file, LastCompletedStep |-> data.last_completed_step,
     Outputs |-> data.outputs]

StateExists(dir, pipelineFile) == getStateFile(pipelineFile) \in DOMAIN dir

\* LoadState: [err, state]; err when the file is missing or does not parse.
LoadState(dir, pipelineFile) ==
    LET path == getStateFile(pipelineFile)
    IN  IF path \in DOMAIN dir /\ dir[path].kind = "json"
        THEN [err |-> FALSE, state |-> Unmarshal(dir[path])]
        ELSE [err |-> TRUE]

\* SaveState: the directory afterwards. io is how the write went: "ok", "fail"
\* (MkdirAll or the open failed: nothing changes) or "partial" (the file was
\* truncated and the write then failed).
SaveIO == {"ok", "fail", "partial"}

SaveState(dir, state, io) ==
    LET path == getStateFile(state.PipelineFile)
    IN  CASE io = "ok"      -> MapPut(dir, path, Marshal(state))
          [] io = "partial" -> MapPut(dir, path, Garbage)
          [] OTHER          -> dir

\* ClearState: os.Remove when the file is there; rmOk is whether Remove works.
ClearState(dir, pipelineFile, rmOk) ==
    LET path == getStateFile(pipelineFile)
    IN  IF path \in DOMAIN dir /\ rmOk
        THEN [x \in (DOMAIN dir) \ {path} |-> dir[x]]
        ELSE dir

(***************************************************************************)
(* The artifact store: artifactsDir maps the path of a file, as             *)
(* filepath.Join makes it, to its content.                                  *)
(***************************************************************************)
\* The elements of a slash-separated path.
RECURSIVE Components(_)
Components(path) ==
    LET at == Index(path, "/")
    IN  IF at < 0 THEN <<path>>
        ELSE <<SubSeq(path, 1, at)>> \o Components(Drop(path, at + 1))

\* filepath.Clean of a relative path: empty and "." elements go, ".." takes
\* the element before it away.
RECURSIVE CleanParts(_, _)
CleanParts(parts, acc) ==
    IF Len(parts) = 0 THEN acc
    ELSE LET h == Head(parts)
         IN  IF h = "" \/ h = "." THEN CleanParts(Tail(parts), acc)
             ELSE IF h = ".." /\ Len(acc) > 0 /\ acc[Len(acc)] # ".."
             THEN CleanParts(Tail(parts), SubSeq(acc, 1, Len(acc) - 1))
             ELSE CleanParts(Tail(parts), Append(acc, h))

Clean(path) ==
    LET parts == CleanParts(Components(path), <<>>)
    IN  IF Len(parts) = 0 THEN "." ELSE JoinWith(parts, "/")

ArtifactsRoot == ".octos/artifacts"

\* filepath.Join(".octos", "artifacts", filename)
ArtifactPath(filename) == Clean(ArtifactsRoot \o "/" \o filename)

loadArtifact(dir, filename) ==
    LET path == ArtifactPath(filename)
    IN  IF path \in DOMAIN dir THEN [err |-> FALSE, content |-> dir[path]]
        ELSE [err |-> TRUE, content |-> ""]

\* Faulty variant: a file that is there is not written again.
saveArtifactOnce(dir, filename, content, wrOk) ==
    LET path == ArtifactPath(filename)
    IN  IF wrOk /\ path # ArtifactsRoot /\ path \notin DOMAIN dir
        THEN MapPut(dir, path, content)
        ELSE dir

\* wrOk: os.WriteFile works; it cannot when the path is the directory.
saveArtifact(dir, filename, content, wrOk) ==
    LET path == ArtifactPath(filename)
    IN  IF wrOk /\ path # ArtifactsRoot THEN MapPut(dir, path, content) ELSE dir

(***************************************************************************)
(* The state.                                                               *)
(***************************************************************************)
VARIABLES
    pc,           \* where the program is: "idle" (not started), "ready" (Run is
                  \* about to be called), "loop" (at the head of the step loop),
                  \* "agent" (waiting for the agent process), and the ends
                  \* "done", "failed", "panic", "killed", and for --clean
                  \* "exited" (main returned) and "fatal" (log.Fatalf)
    runs,         \* launches so far
    pipeline,     \* the loaded Pipeline
    resume,       \* the resume argument
    silent,       \* callbacks are set (TUI mode)
    stateDir,     \* .octos/state
    artifactsDir, \* .octos/artifacts
    i,            \* the loop index
    startStep,
    outputs,      \* ctx.Outputs
    artifacts,    \* the artifacts map of the run
    prompt,       \* the interpolated prompt of the current step
    fullPrompt,   \* the text passed to the agent of the current step
    result,       \* what Run returned: "none" (not yet), "ok", "error"
    events,       \* the notifications of this run, in order
    condLog,      \* <<index, decision>> of every condition evaluated in this run
    spawned,      \* the indices of the steps whose agent was spawned in this run
    writes,       \* the LastCompletedStep of every SaveState call of this run
    readIdx,      \* the largest index at which this run subscripted the step list
    atStart,      \* .octos/state as Run found it
    initOutputs,  \* ctx.Outputs on entry to the loop
    pre,          \* the engine's state when the current agent was spawned
    lastOk,       \* this run's latest successful step: its index, its output,
                  \* and whether its checkpoint was written
    saveErrAt,    \* index of the first step of this run whose SaveState failed
    failedAt,     \* index of the step of this run whose agent failed
    ckptMem,      \* per state file: the launch that wrote it and what that run
                  \* held in memory
    uValid,       \* this run resumed a checkpoint that a run of this pipeline wrote
    uOutputs,     \* Outputs as the uninterrupted run would hold it
    uArtifacts,   \* artifacts as the uninterrupted run would hold it
    uCond,        \* the decisions the uninterrupted run can take at condLog's last entry
    clearErr,     \* ClearState returned an error to this run
    call,         \* the function under study and its arguments, when one is studied alone
    rets,         \* what the evaluations of call returned, in order
    stream,       \* runAgentWithStreaming in progress: the pipes, the two readers,
                  \* the aggregate buffer and the notifications sent
    tui           \* the dashboard: the TUIModel, the commands in flight and the
                  \* engine runs it started

runVars == <<i, startStep, outputs, artifacts, prompt, fullPrompt, result>>
logVars == <<events, condLog, spawned, writes, readIdx, atStart, initOutputs, pre, lastOk,
             saveErrAt, failedAt>>
refVars == <<uValid, uOutputs, uArtifacts, uCond>>
fnVars == <<call, rets, stream, tui>>
engineVars == <<pc, runs, pipeline, resume, silent, stateDir, artifactsDir, runVars, logVars,
                ckptMem, refVars, clearErr>>
vars == <<engineVars, fnVars>>

NoStep == 0 - 1

Event(kind, index, err) == [kind |-> kind, index |-> index, err |-> err]

\* A callback is called when it is set: the TUI sets all five, headless none.
Notify(log, on, ev) == IF on THEN Append(log, ev) ELSE log

NumSteps == Len(pipeline.Steps)

Max(a, b) == IF a >= b THEN a ELSE b

\* No function is studied alone: the engine runs.
NoCall == [fn |-> "none"]

InitEngine ==
    /\ pc = "idle"
    /\ runs = 0
    /\ pipeline = PipeA
    /\ resume = FALSE
    /\ silent = FALSE
    /\ stateDir = EmptyMap
    /\ artifactsDir = EmptyMap
    /\ i = 0
    /\ startStep = 0
    /\ outputs = EmptyMap
    /\ artifacts = EmptyMap
    /\ prompt = ""
    /\ fullPrompt = ""
    /\ result = "none"
    /\ events = <<>>
    /\ condLog = <<>>
    /\ spawned = <<>>
    /\ writes = <<>>
    /\ readIdx = NoStep
    /\ atStart = EmptyMap
    /\ initOutputs = EmptyMap
    /\ pre = [outputs |-> EmptyMap, artifactsDir |-> EmptyMap, stateDir |-> EmptyMap]
    /\ lastOk = [index |-> NoStep, output |-> "", saved |-> FALSE]
    /\ saveErrAt = NoStep
    /\ failedAt = NoStep
    /\ ckptMem = EmptyMap
    /\ uValid = FALSE
    /\ uOutputs = EmptyMap
    /\ uArtifacts = EmptyMap
    /\ uCond = {}
    /\ clearErr = FALSE

\* No streaming invocation is studied.
NoStream == [main |-> "none"]

\* No dashboard is studied.
NoTUI == [program |-> "none"]

Init == InitEngine /\ call = NoCall /\ rets = <<>> /\ stream = NoStream /\ tui = NoTUI

(***************************************************************************)
(* main: the program is started on a pipeline file. In TUI mode NewTUIModel *)
(* runs first: with resume and a state file it marks the completed steps,   *)
(* and dereferences the nil state when the file does not load.              *)
(***************************************************************************)
Stopped == {"idle", "done", "failed", "panic", "killed"}

\* The largest index NewTUIModel's loop reads for this state.
TUIMarked(state, n) == IF state.LastCompletedStep < n THEN state.LastCompletedStep ELSE n - 1

\* The memory of a process that has not called Run yet, or is gone.
FreshRun ==
    /\ i' = 0
    /\ startStep' = 0
    /\ outputs' = EmptyMap
    /\ artifacts' = EmptyMap
    /\ prompt' = ""
    /\ fullPrompt' = ""
    /\ result' = "none"
    /\ events' = <<>>
    /\ condLog' = <<>>
    /\ spawned' = <<>>
    /\ writes' = <<>>
    /\ atStart' = EmptyMap
    /\ initOutputs' = EmptyMap
    /\ pre' = [outputs |-> EmptyMap, artifactsDir |-> EmptyMap, stateDir |-> EmptyMap]
    /\ lastOk' = [index |-> NoStep, output |-> "", saved |-> FALSE]
    /\ saveErrAt' = NoStep
    /\ failedAt' = NoStep
    /\ uValid' = FALSE
    /\ uOutputs' = EmptyMap
    /\ uArtifacts' = EmptyMap
    /\ uCond' = {}
    /\ clearErr' = FALSE

\* The program is started for at most `most` times.
LaunchWithin(p, r, s, most) ==
    /\ pc \in Stopped
    /\ runs < most
    /\ runs' = runs + 1
    /\ pipeline' = p
    /\ resume' = r
    /\ silent' = s
    /\ LET ld == LoadState(stateDir, p.File)
       IN  IF s /\ r /\ StateExists(stateDir, p.File)
           THEN IF ld.err
                THEN pc' = "panic" /\ readIdx' = NoStep
                ELSE pc' = "ready" /\ readIdx' = TUIMarked(ld.state, Len(p.Steps))
           ELSE pc' = "ready" /\ readIdx' = NoStep
    /\ FreshRun
    /\ UNCHANGED <<stateDir, artifactsDir, ckptMem, fnVars>>

Launch(p, r, s) == LaunchWithin(p, r, s, MaxRuns)

(***************************************************************************)
(* RunPipelineWithCallbacks, lines 159-180: the start index and Outputs.    *)
(***************************************************************************)
\* Faulty variant: the run starts at the recorded step itself.
ResumeStartSame(state) == state.LastCompletedStep

ResumeStart(state) == state.LastCompletedStep + 1

\* Faulty variant: the recorded Outputs are not restored.
ResumeOutputsEmpty(state) == EmptyMap

ResumeOutputs(state) == state.Outputs

RunStart ==
    /\ pc = "ready"
    /\ LET ld == LoadState(stateDir, pipeline.File)
           path == getStateFile(pipeline.File)
           loads == resume /\ StateExists(stateDir, pipeline.File) /\ ~ld.err
           start == IF loads THEN ResumeStart(ld.state) ELSE 0
           outs == IF loads THEN ResumeOutputs(ld.state) ELSE EmptyMap
           known == loads /\ path \in DOMAIN ckptMem /\ ckptMem[path].pipeline = pipeline
       IN  /\ startStep' = start
           /\ i' = start
           /\ outputs' = outs
           /\ initOutputs' = outs
           \* line 177, headless only: p.Steps[startStep].Name
           /\ readIdx' = IF loads /\ ~silent THEN Max(readIdx, start) ELSE readIdx
           /\ pc' = IF loads /\ ~silent /\ start >= NumSteps THEN "panic" ELSE "loop"
           /\ uValid' = known
           /\ uOutputs' = IF known THEN ckptMem[path].outputs ELSE outs
           /\ uArtifacts' = IF known THEN ckptMem[path].artifacts ELSE EmptyMap
    /\ atStart' = stateDir
    /\ UNCHANGED <<runs, pipeline, resume, silent, stateDir, artifactsDir, artifacts, prompt,
                   fullPrompt, result, events, condLog, spawned, writes, pre, lastOk,
                   saveErrAt, failedAt, ckptMem, uCond, clearErr, fnVars>>

(***************************************************************************)
(* The step loop, lines 182-288.                                            *)
(***************************************************************************)
CurStep == pipeline.Steps[i + 1]

\* strings.TrimSuffix(step.LoadFrom, filepath.Ext(step.LoadFrom))
ArtifactName(filename) == TrimSuffix(filename, Ext(filename))

\* Faulty variant: a file that does not load is entered with empty content.
ArtifactsAfterLoadAlways(step, dir, arts) ==
    LET la == loadArtifact(dir, step.LoadFrom)
    IN  IF step.LoadFrom # ""
        THEN MapPut(arts, ArtifactName(step.LoadFrom), IF la.err THEN "" ELSE la.content)
        ELSE arts

\* Lines 194-205: the artifacts map and Outputs after the step's load_from.
ArtifactsAfterLoad(step, dir, arts) ==
    LET la == loadArtifact(dir, step.LoadFrom)
    IN  IF step.LoadFrom # "" /\ ~la.err
        THEN MapPut(arts, ArtifactName(step.LoadFrom), la.content)
        ELSE arts

OutputsAfterLoad(step, dir, outs) ==
    LET la == loadArtifact(dir, step.LoadFrom)
    IN  IF step.LoadFrom # "" /\ ~la.err
        THEN MapPut(outs, "artifact." \o ArtifactName(step.LoadFrom), la.content)
        ELSE outs

\* Faulty variant: the artifact of the step is loaded before its condition is
\* looked at.
SkipAfterLoad ==
    /\ pc = "loop"
    /\ i < NumSteps
    /\ FALSE \in ConditionResults(CurStep.When, outputs, artifacts)
    /\ condLog' = Append(condLog, <<i, FALSE>>)
    /\ readIdx' = Max(readIdx, i)
    /\ uCond' = ConditionResults(CurStep.When, uOutputs, uArtifacts)
    /\ artifacts' = ArtifactsAfterLoad(CurStep, artifactsDir, artifacts)
    /\ outputs' = OutputsAfterLoad(CurStep, artifactsDir, outputs)
    /\ i' = i + 1
    /\ UNCHANGED <<pc, runs, pipeline, resume, silent, stateDir, artifactsDir, startStep,
                   prompt, fullPrompt, result, events, spawned, writes, atStart, initOutputs,
                   pre, lastOk, saveErrAt, failedAt, ckptMem, uValid, uOutputs, uArtifacts,
                   clearErr, fnVars>>

\* Lines 186-191: the condition is false, the loop continues.
Skip ==
    /\ pc = "loop"
    /\ i < NumSteps
    /\ FALSE \in ConditionResults(CurStep.When, outputs, artifacts)
    /\ condLog' = Append(condLog, <<i, FALSE>>)
    /\ readIdx' = Max(readIdx, i)
    /\ uCond' = ConditionResults(CurStep.When, uOutputs, uArtifacts)
    /\ i' = i + 1
    /\ UNCHANGED <<pc, runs, pipeline, resume, silent, stateDir, artifactsDir, startStep,
                   outputs, artifacts, prompt, fullPrompt, result, events, spawned, writes,
                   atStart, initOutputs, pre, lastOk, saveErrAt, failedAt, ckptMem, uValid,
                   uOutputs, uArtifacts, clearErr, fnVars>>

\* Lines 186-238: the condition is true; the artifact is loaded, the prompt
\* composed, step-started notified and the agent process spawned.
StepBegin ==
    /\ pc = "loop"
    /\ i < NumSteps
    /\ TRUE \in ConditionResults(CurStep.When, outputs, artifacts)
    /\ condLog' = Append(condLog, <<i, TRUE>>)
    /\ readIdx' = Max(readIdx, i)
    /\ artifacts' = ArtifactsAfterLoad(CurStep, artifactsDir, artifacts)
    /\ outputs' = OutputsAfterLoad(CurStep, artifactsDir, outputs)
    /\ prompt' \in Interpolations(CurStep.Prompt, pipeline.Context, outputs')
    /\ fullPrompt' \in BuiltPrompts(pipeline.Context, outputs', prompt')
    /\ events' = Notify(events, silent, Event("start", i, FALSE))
    /\ spawned' = Append(spawned, i)
    /\ pre' = [outputs |-> outputs', artifactsDir |-> artifactsDir, stateDir |-> stateDir]
    /\ uCond' = ConditionResults(CurStep.When, uOutputs, uArtifacts)
    /\ uArtifacts' = ArtifactsAfterLoad(CurStep, artifactsDir, uArtifacts)
    /\ uOutputs' = OutputsAfterLoad(CurStep, artifactsDir, uOutputs)
    /\ pc' = "agent"
    /\ UNCHANGED <<runs, pipeline, resume, silent, stateDir, artifactsDir, i, startStep,
                   result, writes, atStart, initOutputs, lastOk, saveErrAt, failedAt, ckptMem,
                   uValid, clearErr, fnVars>>

\* Faulty variant: the error is notified but the loop goes on.
AgentFailNoReturn ==
    /\ pc = "agent"
    /\ events' = Notify(events, silent, Event("complete", i, TRUE))
    /\ failedAt' = i
    /\ i' = i + 1
    /\ pc' = "loop"
    /\ UNCHANGED <<runs, pipeline, resume, silent, stateDir, artifactsDir, startStep,
                   outputs, artifacts, prompt, fullPrompt, result, condLog, spawned, writes,
                   readIdx, atStart, initOutputs, pre, lastOk, saveErrAt, ckptMem, refVars,
                   clearErr, fnVars>>

\* Faulty variant: what the failed agent printed is stored and notified before the
\* error is looked at.
AgentFailKeepsOutput ==
    /\ pc = "agent"
    /\ outputs' = MapPut(outputs, CurStep.Name, "")
    /\ events' = Notify(Notify(events, silent, Event("output", i, FALSE)),
                        silent, Event("complete", i, TRUE))
    /\ failedAt' = i
    /\ result' = "error"
    /\ pc' = "failed"
    /\ UNCHANGED <<runs, pipeline, resume, silent, stateDir, artifactsDir, i, startStep,
                   artifacts, prompt, fullPrompt, condLog, spawned, writes, readIdx,
                   atStart, initOutputs, pre, lastOk, saveErrAt, ckptMem, refVars,
                   clearErr, fnVars>>

\* Lines 242-247: the agent failed; step-completed carries the error and Run
\* returns it.
AgentFail ==
    /\ pc = "agent"
    /\ events' = Notify(events, silent, Event("complete", i, TRUE))
    /\ failedAt' = i
    /\ result' = "error"
    /\ pc' = "failed"
    /\ UNCHANGED <<runs, pipeline, resume, silent, stateDir, artifactsDir, i, startStep,
                   outputs, artifacts, prompt, fullPrompt, condLog, spawned, writes, readIdx,
                   atStart, initOutputs, pre, lastOk, saveErrAt, ckptMem, refVars,
                   clearErr, fnVars>>

\* Faulty variant: the record names the step before the one that completed.
CheckpointOffByOne(file, idx, outs) ==
    [PipelineFile |-> file, LastCompletedStep |-> idx - 1, Outputs |-> outs]

\* Lines 277-282: the record SaveState is given after step idx.
Checkpoint(file, idx, outs) ==
    [PipelineFile |-> file, LastCompletedStep |-> idx, Outputs |-> outs]

\* Faulty variant: step-completed is notified twice.
SuccessEventsTwice(log, on, idx, changed) ==
    Notify(Notify(Notify(Notify(log, on /\ changed, Event("files", idx, FALSE)),
                         on, Event("output", idx, FALSE)),
                  on, Event("complete", idx, FALSE)),
           on, Event("complete", idx, FALSE))

\* Lines 249-274: the notifications of a successful step. changed: the
\* working tree differs from the snapshot taken before the agent ran.
SuccessEvents(log, on, idx, changed) ==
    Notify(Notify(Notify(log, on /\ changed, Event("files", idx, FALSE)),
                  on, Event("output", idx, FALSE)),
           on, Event("complete", idx, FALSE))

\* Lines 249-288: the agent returned. wrOk: the artifact write works; io: how
\* SaveState's write goes. Both errors are ignored by the engine.
AgentReturns(agentRuns) ==
    /\ pc = "agent"
    /\ \E run \in agentRuns, wrOk \in BOOLEAN, io \in SaveIO :
          LET outs == MapPut(outputs, CurStep.Name, run.out)
              uOuts == MapPut(uOutputs, CurStep.Name, run.out)
              state == Checkpoint(pipeline.File, i, outs)
              path == getStateFile(pipeline.File)
          IN  /\ CurStep.SaveTo = "" => wrOk
              /\ outputs' = outs
              /\ events' = SuccessEvents(events, silent, i, run.changed)
              /\ artifactsDir' = IF CurStep.SaveTo # ""
                                 THEN saveArtifact(artifactsDir, CurStep.SaveTo, run.out, wrOk)
                                 ELSE artifactsDir
              /\ stateDir' = SaveState(stateDir, state, io)
              /\ writes' = Append(writes, state.LastCompletedStep)
              /\ lastOk' = [index |-> i, output |-> run.out, saved |-> (io = "ok")]
              /\ saveErrAt' = IF io # "ok" /\ saveErrAt = NoStep THEN i ELSE saveErrAt
              /\ uOutputs' = uOuts
              /\ ckptMem' = IF io = "ok"
                            THEN MapPut(ckptMem, path, [run |-> runs, pipeline |-> pipeline,
                                                        outputs |-> uOuts,
                                                        artifacts |-> uArtifacts])
                            ELSE ckptMem
    /\ i' = i + 1
    /\ prompt' = ""
    /\ fullPrompt' = ""
    /\ pre' = [outputs |-> EmptyMap, artifactsDir |-> EmptyMap, stateDir |-> EmptyMap]
    /\ pc' = "loop"
    /\ UNCHANGED <<runs, pipeline, resume, silent, startStep, artifacts, result, condLog,
                   spawned, readIdx, atStart, initOutputs, failedAt, uValid, uArtifacts,
                   uCond, clearErr, fnVars>>

AgentSuccess == AgentReturns(AgentRuns)

\* Lines 290-292: the loop is over; ClearState's error is ignored and Run
\* returns nil.
Complete ==
    /\ pc = "loop"
    /\ i >= NumSteps
    /\ \E rmOk \in BOOLEAN :
          /\ ~StateExists(stateDir, pipeline.File) => rmOk
          /\ stateDir' = ClearState(stateDir, pipeline.File, rmOk)
          /\ clearErr' = ~rmOk
    /\ result' = "ok"
    /\ pc' = "done"
    /\ UNCHANGED <<runs, pipeline, resume, silent, artifactsDir, i, startStep, outputs,
                   artifacts, prompt, fullPrompt, logVars, ckptMem, refVars, fnVars>>

\* The process is killed (Ctrl-C, q in the TUI) while Run is active: its
\* memory is gone, the two directories stay as they are.
Interrupt ==
    /\ pc \in {"loop", "agent"}
    /\ pc' = "killed"
    /\ readIdx' = NoStep
    /\ FreshRun
    /\ UNCHANGED <<runs, pipeline, resume, silent, stateDir, artifactsDir, ckptMem, fnVars>>

Next ==
    \/ \E p \in Pipelines, r \in BOOLEAN, s \in BOOLEAN : Launch(p, r, s)
    \/ RunStart
    \/ Skip
    \/ StepBegin
    \/ AgentFail
    \/ AgentSuccess
    \/ Complete
    \/ Interrupt

Spec == Init /\ [][Next]_vars

\* main with --clean on pipeline file p, after any earlier invocations:
\* ClearState, then "State cleared" and return, or log.Fatalf when the
\* removal fails. call is the command line.
MainClean(p) ==
    /\ pc \in Stopped
    /\ runs < MaxRuns
    /\ call = NoCall
    /\ runs' = runs + 1
    /\ call' = [fn |-> "main", clean |-> TRUE, file |-> p.File]
    /\ \E rmOk \in BOOLEAN :
          /\ ~StateExists(stateDir, p.File) => rmOk
          /\ stateDir' = ClearState(stateDir, p.File, rmOk)
          /\ pc' = IF rmOk THEN "exited" ELSE "fatal"
    /\ readIdx' = NoStep
    /\ FreshRun
    /\ UNCHANGED <<pipeline, resume, silent, artifactsDir, ckptMem, rets, stream, tui>>

NextMain ==
    \/ Next
    \/ \E p \in Pipelines : MainClean(p)

SpecMain == Init /\ [][NextMain]_vars

\* The program run on the review pipeline only.
NextReview ==
    \/ \E r \in BOOLEAN, s \in BOOLEAN : Launch(PipeReview, r, s)
    \/ RunStart
    \/ Skip
    \/ StepBegin
    \/ AgentFail
    \/ AgentReturns(ReviewRuns)
    \/ Complete
    \/ Interrupt

SpecReview == Init /\ [][NextReview]_vars

\* The program started on the review pipeline for up to MaxLaunches times.
NextResume ==
    \/ \E r \in BOOLEAN, s \in BOOLEAN : LaunchWithin(PipeReview, r, s, MaxLaunches)
    \/ RunStart
    \/ Skip
    \/ StepBegin
    \/ AgentFail
    \/ AgentReturns(ReviewRuns)
    \/ Complete
    \/ Interrupt

SpecResume == Init /\ [][NextResume]_vars

\* The program run on the artifact pipeline only.
NextArtifact ==
    \/ \E r \in BOOLEAN, s \in BOOLEAN : Launch(PipeArtifact, r, s)
    \/ RunStart
    \/ Skip
    \/ StepBegin
    \/ AgentFail
    \/ AgentReturns(ArtifactRuns)
    \/ Complete
    \/ Interrupt

SpecArtifact == Init /\ [][NextArtifact]_vars

(***************************************************************************)
(* evaluateCondition, interpolate and LoadPipeline studied alone: a call is  *)
(* drawn from the inputs below and evaluated up to MaxEvals times; every     *)
(* evaluation visits its maps in an order of its own.                        *)
(***************************************************************************)
\* Outputs with the entries of the steps a and b.
OutputsAB(x, y) == MapPut(MapPut(EmptyMap, "a", x), "b", y)

AOutputs == {"Yes please", "done", "DONE", "DONE\n", "", "it contains yes", "{{b.output}}"}
BOutputs == {"yes", "yes\n", "DONE"}

\* The when of a step: <left> contains <right>, <left> equals <right>,
\* <left> not_empty, or the text left alone (op "none").
CondText(c) ==
    CASE c.op = "contains"  -> c.left \o " contains " \o c.right
      [] c.op = "equals"    -> c.left \o " equals " \o c.right
      [] c.op = "not_empty" -> c.left \o " not_empty"
      [] OTHER              -> c.left

CondForms ==
    [left : {"{{a.output}}", "'{{a.output}}'"}, op : {"contains"},
     right : {"yes", "'YES'", "{{b.output}}"}]
    \cup [left : {"{{a.output}}"}, op : {"equals"}, right : {"DONE", "\"DONE\"", "{{b.output}}"}]
    \cup [left : {"{{a.output}}"}, op : {"not_empty"}, right : {""}]
    \cup [left : {"", "always", "{{a.output}} matches yes", "{{a.output}}", "not_empty"},
          op : {"none"}, right : {""}]

CondCalls ==
    {[fn |-> "evaluateCondition", left |-> f.left, op |-> f.op, right |-> f.right,
      outs |-> OutputsAB(x, y)] : f \in CondForms, x \in AOutputs, y \in BOutputs}

Templates ==
    {"{{step1.output}}", "Fix {{a.output}} then {{a.output}}", "{{a.output}} and {{b.output}}",
     "{{{{a.output}}.output}}", "{{c.output}} stays", "no placeholder"}

InterpOutputs ==
    {MapPut(EmptyMap, "step1", "X")}
    \cup {OutputsAB(x, y) : x \in {"X", "b", "", "{{a.output}}", "{{b.output}}"},
                            y \in {"Y", "{{a.output}}"}}

InterpCalls ==
    {[fn |-> "interpolate", text |-> t, global |-> EmptyMap, outs |-> o] :
        t \in Templates, o \in InterpOutputs}

\* The context block of a pipeline file: scalars and lists.
Contexts ==
    {[role |-> Scalar("reviewer"), rules |-> List(<<"be brief", "be kind">>),
      tags |-> List(<<"go">>)],
     [role |-> Scalar("tester"), rules |-> List(<<>>), tags |-> List(<<"go", "tla">>)]}

ContextTemplates ==
    {"You are {{context.role}}", "Rules:\n{{context.rules}}", "Tags: {{context.tags}}",
     "{{context.role}}: {{context.rules}}"}

ContextCalls ==
    {[fn |-> "interpolate", text |-> t, global |-> g, outs |-> EmptyMap] :
        t \in ContextTemplates, g \in Contexts}

\* Step lists of at most n steps whose name or prompt may be missing.
RECURSIVE StepLists(_)
StepLists(n) ==
    IF n = 0 THEN {<<>>}
    ELSE StepLists(n - 1)
         \cup {Append(l, MkStep(name, text, "", "", "")) :
                 l \in {x \in StepLists(n - 1) : Len(x) = n - 1},
                 name \in {"", "build"}, text \in {"", "Build it"}}

LoadCalls ==
    {[fn |-> "LoadPipeline", def |-> [Agent |-> [Cmd |-> c], Steps |-> l],
      validates |-> v, mkdirOk |-> d] :
        c \in {"", "claude"}, l \in StepLists(MaxSteps), v \in BOOLEAN, d \in BOOLEAN}

\* The `agent:` key of a step: absent, a mapping without cmd, a full one.
StepAgents == {<<>>, <<AgentConfig("", <<"-p">>)>>, <<AgentConfig("codex", <<>>)>>}

\* Step lists of at most n steps with a name, a prompt and any `agent:` key.
RECURSIVE AgentStepLists(_)
AgentStepLists(n) ==
    IF n = 0 THEN {<<>>}
    ELSE AgentStepLists(n - 1)
         \cup {Append(l, [Name |-> "build", Prompt |-> "Build it", Agent |-> a]) :
                 l \in {x \in AgentStepLists(n - 1) : Len(x) = n - 1}, a \in StepAgents}

\* A definition is loaded, then the engine picks the agent of each step.
ResolveCalls ==
    {[fn |-> "agent", def |-> [Agent |-> AgentConfig(c, <<>>), Steps |-> l], validates |-> v] :
        c \in {"", "claude"}, l \in AgentStepLists(MaxSteps), v \in BOOLEAN}

\* Saves into the artifact store, then one load. ok: the write works.
ArtifactNames == {"plan.txt", "./plan.txt", "notes.txt"}

SaveOps == [name : ArtifactNames, content : {"hello", "bye"}, ok : BOOLEAN]

RECURSIVE SaveLists(_)
SaveLists(n) ==
    IF n = 0 THEN {<<>>}
    ELSE SaveLists(n - 1)
         \cup {Append(l, s) : l \in {x \in SaveLists(n - 1) : Len(x) = n - 1}, s \in SaveOps}

ArtifactCalls ==
    {[fn |-> "artifacts", saves |-> l, load |-> n] : l \in SaveLists(MaxSaves), n \in ArtifactNames}

\* The artifacts directory after the saves, made in order from an empty one.
RECURSIVE AfterSaves(_, _)
AfterSaves(dir, saves) ==
    IF Len(saves) = 0 THEN dir
    ELSE AfterSaves(saveArtifact(dir, Head(saves).name, Head(saves).content, Head(saves).ok),
                    Tail(saves))

(***************************************************************************)
(* File change detection. A tree is the regular files below the working     *)
(* directory, path -> modification time; a snapshot is the part of it that   *)
(* scanDirectory keeps.                                                      *)
(***************************************************************************)
\* The directories above a path, as filepath.Walk(".") names them.
Ancestors(path) ==
    {SubSeq(path, 1, k - 1) : k \in {n \in 1..Len(path) : SubSeq(path, n, n) = "/"}}

\* Lines 109-111: the test of the walk function on a path.
Excluded(path) ==
    \/ Contains(path, "/.")
    \/ Contains(path, "/node_modules/")
    \/ Contains(path, "/.octos/")

\* scanDirectory("."): Walk visits "." and then every entry as the path
\* joined to ".", which has no "./" in front. A directory that passes the
\* test is walked into (SkipDir otherwise), a file that passes it is recorded.
scanDirectory(tree) ==
    LET kept == {f \in DOMAIN tree :
                    ~Excluded(f) /\ \A d \in Ancestors(f) \cup {"."} : ~Excluded(d)}
    IN  [f \in kept |-> tree[f]]

\* Faulty variant: a file whose time is not earlier than before is modified.
ChangeAfterNotEarlier(beforeFiles, path, afterTime) ==
    IF path \notin DOMAIN beforeFiles THEN <<"+ " \o path>>
    ELSE IF afterTime >= beforeFiles[path] THEN <<"M " \o path>>
    ELSE <<>>

\* Lines 82-86: what one path of the later snapshot adds to the changes.
ChangeAfter(beforeFiles, path, afterTime) ==
    IF path \notin DOMAIN beforeFiles THEN <<"+ " \o path>>
    ELSE IF afterTime > beforeFiles[path] THEN <<"M " \o path>>
    ELSE <<>>

\* Lines 81-87: for path, afterTime := range afterFiles.
RECURSIVE NewAndModified(_, _, _)
NewAndModified(beforeFiles, afterFiles, ord) ==
    IF Len(ord) = 0 THEN <<>>
    ELSE ChangeAfter(beforeFiles, Head(ord), afterFiles[Head(ord)])
         \o NewAndModified(beforeFiles, afterFiles, Tail(ord))

\* Lines 90-94: for path := range beforeFiles.
RECURSIVE Deleted(_, _)
Deleted(afterFiles, ord) ==
    IF Len(ord) = 0 THEN <<>>
    ELSE (IF Head(ord) \notin DOMAIN afterFiles THEN <<"- " \o Head(ord)>> ELSE <<>>)
         \o Deleted(afterFiles, Tail(ord))

\* detectFileChanges with the working tree as it is at the call; aOrd and
\* bOrd are the orders of the two range loops.
detectFileChanges(beforeFiles, tree, aOrd, bOrd) ==
    LET afterFiles == scanDirectory(tree)
    IN  NewAndModified(beforeFiles, afterFiles, aOrd) \o Deleted(afterFiles, bOrd)

DetectedChanges(beforeFiles, tree) ==
    {detectFileChanges(beforeFiles, tree, aOrd, bOrd) :
        aOrd \in KeyOrders(scanDirectory(tree)), bOrd \in KeyOrders(beforeFiles)}

\* Working trees of source files, before and after an agent ran.
SourceFiles == {"main.go", "go.mod", "src/a.go"}

Trees(files) == UNION {[s -> 1..MaxTime] : s \in SUBSET files}

DetectCalls ==
    {[fn |-> "detectFileChanges", treeBefore |-> b, tree |-> a] :
        b \in Trees(SourceFiles), a \in Trees(SourceFiles)}

\* Working trees with hidden files and directories and dependency caches, at
\* the top level and below it.
TreeFiles ==
    {"main.go", "src/a.go", ".env", ".git/config", ".octos/state/p.json",
     "node_modules/x.js", "src/.cache/t", "src/node_modules/y.js"}

ScanCalls ==
    {[fn |-> "scanDirectory", tree |-> [f \in s |-> 1]] : s \in SUBSET TreeFiles}

(***************************************************************************)
(* Sanitization of what the agent printed, on the bytes of the text. A Go    *)
(* string is a sequence of bytes; package regexp reads it rune by rune, an   *)
(* invalid byte being the rune U+FFFD of width 1, and ReplaceAllString       *)
(* copies the bytes outside the matches as they are.                         *)
(***************************************************************************)
ESC == 27

BEL == 7

TAB == 9

LF == 10

CR == 13

RuneError == 65533

\* The ten glyphs of spinnerRegex, U+280B ... U+280F.
SpinnerRunes == {10251, 10265, 10297, 10296, 10300, 10292, 10278, 10279, 10247, 10255}

Continuation(b) == b >= 128 /\ b <= 191

\* utf8.DecodeRuneInString at the head of b, for ASCII and for the three-byte
\* runes that begin with E2 (the Braille block is there): <<rune, width>>.
DecodeRune(b) ==
    IF b[1] < 128 THEN <<b[1], 1>>
    ELSE IF b[1] = 226 /\ Len(b) >= 3 /\ Continuation(b[2]) /\ Continuation(b[3])
    THEN <<8192 + (b[2] - 128) * 64 + (b[3] - 128), 3>>
    ELSE <<RuneError, 1>>

\* The runes of b, each with the bytes it was decoded from.
RECURSIVE Runes(_)
Runes(b) ==
    IF Len(b) = 0 THEN <<>>
    ELSE LET d == DecodeRune(b)
         IN  <<[r |-> d[1], bytes |-> SubSeq(b, 1, d[2])]>> \o Runes(Drop(b, d[2]))

RECURSIVE Bytes(_)
Bytes(runes) == IF Len(runes) = 0 THEN <<>> ELSE Head(runes).bytes \o Bytes(Tail(runes))

\* How many runes from position at on are in the class.
RECURSIVE Run(_, _, _)
Run(runes, at, class) ==
    IF at <= Len(runes) /\ runes[at].r \in class THEN 1 + Run(runes, at + 1, class) ELSE 0

Is(runes, at, class) == at <= Len(runes) /\ runes[at].r \in class

Digits == 48..57

Letters == (65..90) \cup (97..122)

\* The length in runes of the match of a regex at the head of runes, 0 for none.
MatchLen(re, runes) ==
    CASE re = "ansiRegex" ->
            IF ~Is(runes, 1, {ESC}) THEN 0
            ELSE IF Is(runes, 2, {91})
                    /\ Is(runes, 3 + Run(runes, 3, Digits \cup {59}), Letters)
                 THEN 3 + Run(runes, 3, Digits \cup {59})
            ELSE IF Is(runes, 2, {40}) /\ Is(runes, 3, {66}) THEN 3
            ELSE IF Is(runes, 2, {41}) /\ Is(runes, 3, {48}) THEN 3
            ELSE 0
      [] re = "cursorMovementRegex" ->
            IF Is(runes, 1, {ESC}) /\ Is(runes, 2, {91})
               /\ Is(runes, 3 + Run(runes, 3, Digits),
                     {65, 66, 67, 68, 69, 70, 71, 72, 74, 75, 83, 84})
            THEN 3 + Run(runes, 3, Digits)
            ELSE 0
      [] re = "spinnerRegex" ->
            IF Is(runes, 1, SpinnerRunes) THEN 1 + Run(runes, 2, {TAB, LF, 12, CR, 32}) ELSE 0
      [] re = "controlCharsRegex" ->
            IF Is(runes, 1, (0..8) \cup {11, 12} \cup (14..31) \cup {127}) THEN 1 ELSE 0

\* The digits a greedy [0-9;]* took can be given back for the letter to match
\* only if a digit were a letter, so the first try decides.
RECURSIVE RemoveMatches(_, _)
RemoveMatches(re, runes) ==
    IF Len(runes) = 0 THEN <<>>
    ELSE LET n == MatchLen(re, runes)
         IN  IF n > 0 THEN RemoveMatches(re, Drop(runes, n))
             ELSE <<Head(runes)>> \o RemoveMatches(re, Tail(runes))

\* re.ReplaceAllString(s, "")
ReplaceAllString(re, s) == Bytes(RemoveMatches(re, Runes(s)))

\* stripANSI, lines 127-139.
stripANSIBytes(s) ==
    LET noAnsi == ReplaceAllString("ansiRegex", s)
        noCursor == ReplaceAllString("cursorMovementRegex", noAnsi)
        noSpinner == ReplaceAllString("spinnerRegex", noCursor)
        noControl == ReplaceAllString("controlCharsRegex", noSpinner)
    IN  SelectSeq(noControl, LAMBDA b : b # CR)

\* bufio.ScanLines over the whole of what a pipe carried: the lines without
\* their newline and without one carriage return before it.
RECURSIVE ScanLines(_, _)
ScanLines(s, line) ==
    LET dropCR == IF Len(line) > 0 /\ line[Len(line)] = CR
                  THEN SubSeq(line, 1, Len(line) - 1) ELSE line
    IN  IF Len(s) = 0 THEN (IF Len(line) = 0 THEN <<>> ELSE <<dropCR>>)
        ELSE IF Head(s) = LF THEN <<dropCR>> \o ScanLines(Tail(s), <<>>)
        ELSE ScanLines(Tail(s), Append(line, Head(s)))

RECURSIVE JoinLines(_)
JoinLines(lines) ==
    IF Len(lines) = 0 THEN <<>> ELSE Head(lines) \o <<LF>> \o JoinLines(Tail(lines))

\* runAgent: the combined output, sanitized as a whole; no line is notified.
runAgent(raw) == [output |-> stripANSIBytes(raw), lines |-> <<>>]

\* runAgentWithStreaming with one pipe written to and the reader done before
\* the return: each line sanitized, notified and appended with a newline.
runAgentStreamed(raw) ==
    LET scanned == ScanLines(raw, <<>>)
        clean == [n \in DOMAIN scanned |-> stripANSIBytes(scanned[n])]
    IN  [output |-> JoinLines(clean), lines |-> clean]

\* Pieces of an agent's output: a colour sequence, text, a progress line that
\* rewrites itself, a spinner glyph, a bell, and a glyph with a bell written
\* into the middle of its three bytes by another writer to the terminal.
Chunks ==
    {<<ESC, 91, 51, 49, 109>>, <<97>>, <<CR>>, <<LF>>, <<TAB>>, <<BEL>>,
     <<226, 160, 139>>, <<226, 160>>, <<139>>}

RECURSIVE RawOutputs(_)
RawOutputs(n) ==
    IF n = 0 THEN {<<>>}
    ELSE RawOutputs(n - 1) \cup {r \o c : r \in RawOutputs(n - 1), c \in Chunks}

AgentCalls ==
    {[fn |-> "runAgent", streaming |-> s, raw |-> r] :
        s \in BOOLEAN, r \in RawOutputs(MaxChunks)}

\* Two pipeline files with the same base name in different directories, and
\* a third with a name of its own.
PipelineFiles == {"flows/pipeline.yaml", "other/pipeline.yaml", "flows/review.yaml"}

\* The record of file `saved` is written; then the record of file `other` is
\* saved, loaded or cleared.
StateCalls ==
    {c \in [fn : {"state"}, saved : PipelineFiles, op : {"save", "load", "clear"},
            other : PipelineFiles] : c.saved # c.other}

\* Calls of buildPrompt. added: the names of Outputs in the order in which
\* the run added them.
PromptCalls ==
    {[fn |-> "buildPrompt", global |-> g, added |-> a,
      outs |-> [n \in {a[k] : k \in DOMAIN a} |-> OutputsAB("X", "Y")[n]], task |-> "Fix X"] :
        g \in {EmptyMap} \cup Contexts, a \in {<<>>, <<"a">>, <<"a", "b">>, <<"b", "a">>}}

InitFunctions ==
    /\ InitEngine
    /\ call \in CondCalls \cup InterpCalls \cup ContextCalls \cup LoadCalls \cup ArtifactCalls
                \cup PromptCalls \cup DetectCalls \cup ScanCalls \cup AgentCalls
                \cup StateCalls \cup ResolveCalls
    /\ rets = <<>>
    /\ stream = NoStream
    /\ tui = NoTUI

CallEvaluateCondition ==
    /\ call.fn = "evaluateCondition"
    /\ Len(rets) < MaxEvals
    /\ \E r \in ConditionResults(CondText(call), call.outs, EmptyMap) : rets' = Append(rets, r)
    /\ UNCHANGED <<engineVars, call, stream, tui>>

CallInterpolate ==
    /\ call.fn = "interpolate"
    /\ Len(rets) < MaxEvals
    /\ \E r \in Interpolations(call.text, call.global, call.outs) : rets' = Append(rets, r)
    /\ UNCHANGED <<engineVars, call, stream, tui>>

\* LoadPipeline, then the agent lines 223-227 pick for every step.
CallResolveAgent ==
    /\ call.fn = "agent"
    /\ Len(rets) < MaxEvals
    /\ rets' = Append(rets,
                      [err |-> LoadPipeline(call.def, call.validates, TRUE).err,
                       agents |-> [k \in DOMAIN call.def.Steps |->
                                      ResolveAgent(call.def, call.def.Steps[k])]])
    /\ UNCHANGED <<engineVars, call, stream, tui>>

CallLoadPipeline ==
    /\ call.fn = "LoadPipeline"
    /\ Len(rets) < MaxEvals
    /\ rets' = Append(rets, LoadPipeline(call.def, call.validates, call.mkdirOk))
    /\ UNCHANGED <<engineVars, call, stream, tui>>

CallArtifacts ==
    /\ call.fn = "artifacts"
    /\ Len(rets) < MaxEvals
    /\ rets' = Append(rets, loadArtifact(AfterSaves(EmptyMap, call.saves), call.load))
    /\ UNCHANGED <<engineVars, call, stream, tui>>

CallBuildPrompt ==
    /\ call.fn = "buildPrompt"
    /\ Len(rets) < MaxEvals
    /\ \E r \in BuiltPrompts(call.global, call.outs, call.task) : rets' = Append(rets, r)
    /\ UNCHANGED <<engineVars, call, stream, tui>>

\* Line 221 took the snapshot of treeBefore; line 253 compares it with the tree.
CallDetectFileChanges ==
    /\ call.fn = "detectFileChanges"
    /\ rets = <<>>
    /\ \E r \in DetectedChanges(scanDirectory(call.treeBefore), call.tree) : rets' = <<r>>
    /\ UNCHANGED <<engineVars, call, stream, tui>>

CallScanDirectory ==
    /\ call.fn = "scanDirectory"
    /\ rets = <<>>
    /\ rets' = <<scanDirectory(call.tree)>>
    /\ UNCHANGED <<engineVars, call, stream, tui>>

\* Lines 231-238: the agent is run in the mode the callbacks ask for.
CallRunAgent ==
    /\ call.fn = "runAgent"
    /\ rets = <<>>
    /\ rets' = <<IF call.streaming THEN runAgentStreamed(call.raw) ELSE runAgent(call.raw)>>
    /\ UNCHANGED <<engineVars, call, stream, tui>>

\* SaveState for call.saved, the operation on call.other, and then LoadState
\* for call.saved: what the operation returned, and what the last load did.
CallStateStore ==
    /\ call.fn = "state"
    /\ rets = <<>>
    /\ LET first == SaveState(EmptyMap, Checkpoint(call.saved, 0, [analyze |-> "Issue found"]), "ok")
           after == CASE call.op = "save" ->
                             SaveState(first, Checkpoint(call.other, 1, [build |-> "all good"]), "ok")
                      [] call.op = "clear" -> ClearState(first, call.other, TRUE)
                      [] OTHER -> first
       IN  rets' = <<[op |-> LoadState(first, call.other), again |-> LoadState(after, call.saved)]>>
    /\ UNCHANGED <<engineVars, call, stream, tui>>

NextFunctions ==
    \/ CallResolveAgent
    \/ CallStateStore
    \/ CallRunAgent
    \/ CallScanDirectory
    \/ CallDetectFileChanges
    \/ CallBuildPrompt
    \/ CallArtifacts
    \/ CallEvaluateCondition
    \/ CallInterpolate
    \/ CallLoadPipeline

SpecFunctions == InitFunctions /\ [][NextFunctions]_vars

(***************************************************************************)
(* runAgentWithStreaming, called for one step in the TUI. The agent has      *)
(* written its lines into the two pipes; a goroutine per pipe scans a line,  *)
(* appends it to the strings.Builder and calls the line callback; the caller *)
(* waits for the process, takes the Builder's text and goes on with          *)
(* step-output, step-completed and the start of the next step. The Builder   *)
(* is written by both goroutines and read by the caller without any lock:    *)
(* an append is a read of the buffer followed by a write of it.              *)
(***************************************************************************)
\* stripANSI on the characters a line of the model can hold: form feed (a
\* control character) and carriage return are removed.
stripANSI(s) == ReplaceAll(ReplaceAll(s, "\f", ""), "\r", "")

StreamCalls ==
    {[fn |-> "runAgentWithStreaming", stdout |-> o, stderr |-> e] :
        o \in {<<>>, <<"one">>, <<"one", "50%\rtwo">>}, e \in {<<>>, <<"warn">>}}

Readers == {"stdout", "stderr"}

Idle == [pc |-> "scan", line |-> "", seen |-> ""]

Sent(kind, text) == [kind |-> kind, text |-> text]

InitStream ==
    /\ InitEngine
    /\ call \in StreamCalls
    /\ rets = <<>>
    /\ stream = [main |-> "wait", exited |-> FALSE, closed |-> FALSE,
                 pipe |-> [stdout |-> call.stdout, stderr |-> call.stderr],
                 rd |-> [r \in Readers |-> Idle],
                 builder |-> "",
                 log |-> <<Sent("start", "")>>]
    /\ tui = NoTUI

\* The agent process exits; what it wrote is in the pipes.
ProcessExit ==
    /\ stream.main = "wait" /\ ~stream.exited
    /\ stream' = [stream EXCEPT !.exited = TRUE]
    /\ UNCHANGED <<engineVars, call, rets, tui>>

\* scanner.Scan() gives the next line. After Wait closed the pipe the read
\* fails, unless the line is in the scanner's buffer already.
ScanLine(r) ==
    /\ stream.main # "none" /\ stream.rd[r].pc = "scan"
    /\ Len(stream.pipe[r]) > 0
    /\ stream' = [stream EXCEPT !.pipe[r] = Tail(@),
                                !.rd[r] = [pc |-> "load", seen |-> "",
                                           line |-> stripANSI(Head(stream.pipe[r]))]]
    /\ UNCHANGED <<engineVars, call, rets, tui>>

\* scanner.Scan() returns false: end of file after the exit, or a closed pipe.
ScanEnds(r) ==
    /\ stream.main # "none" /\ stream.rd[r].pc = "scan"
    /\ \/ stream.closed
       \/ stream.exited /\ Len(stream.pipe[r]) = 0
    /\ stream' = [stream EXCEPT !.rd[r].pc = "end"]
    /\ UNCHANGED <<engineVars, call, rets, tui>>

\* output.WriteString: the buffer is read ...
BuilderRead(r) ==
    /\ stream.main # "none" /\ stream.rd[r].pc = "load"
    /\ stream' = [stream EXCEPT !.rd[r].pc = "store", !.rd[r].seen = stream.builder]
    /\ UNCHANGED <<engineVars, call, rets, tui>>

\* ... and written back with the line appended.
BuilderWrite(r) ==
    /\ stream.main # "none" /\ stream.rd[r].pc = "store"
    /\ stream' = [stream EXCEPT !.rd[r].pc = "notify",
                                !.builder = stream.rd[r].seen \o stream.rd[r].line \o "\n"]
    /\ UNCHANGED <<engineVars, call, rets, tui>>

\* onLine(cleanLine): program.Send(stepStreamMsg).
LineCallback(r) ==
    /\ stream.main # "none" /\ stream.rd[r].pc = "notify"
    /\ stream' = [stream EXCEPT !.rd[r] = Idle,
                                !.log = Append(@, Sent("line", stream.rd[r].line))]
    /\ UNCHANGED <<engineVars, call, rets, tui>>

\* cmd.Wait() returns once the process has exited, closing the pipes;
\* output.String() is returned.
WaitReturns ==
    /\ stream.main = "wait" /\ stream.exited
    /\ rets' = <<stream.builder>>
    /\ stream' = [stream EXCEPT !.main = "output", !.closed = TRUE]
    /\ UNCHANGED <<engineVars, call, tui>>

\* RunPipelineWithCallbacks, lines 268-274 and 211-213 of the next step.
CallerGoesOn ==
    /\ stream.main \in {"output", "complete", "next"}
    /\ stream' = [stream EXCEPT
                     !.main = CASE stream.main = "output" -> "complete"
                                [] stream.main = "complete" -> "next"
                                [] OTHER -> "end",
                     !.log = Append(@, Sent(stream.main, IF stream.main = "output"
                                                         THEN rets[1] ELSE ""))]
    /\ UNCHANGED <<engineVars, call, rets, tui>>

NextStream ==
    \/ ProcessExit
    \/ \E r \in Readers : ScanLine(r)
    \/ \E r \in Readers : ScanEnds(r)
    \/ \E r \in Readers : BuilderRead(r)
    \/ \E r \in Readers : BuilderWrite(r)
    \/ \E r \in Readers : LineCallback(r)
    \/ WaitReturns
    \/ CallerGoesOn

SpecStream == InitStream /\ [][NextStream]_vars

(***************************************************************************)
(* The dashboard (tui.go). Update handles one message at a time. A message   *)
(* comes from the terminal (a key, a window size), from a command the        *)
(* handler returned (startPipelineMsg) or from an engine run through         *)
(* program.Send, which returns when Update has taken the message. An engine  *)
(* run is a goroutine of runPipelineWithProgram: its loop index and whether  *)
(* it waits for its agent. ckpt is the last-completed index in the state     *)
(* file of the pipeline, NoStep when there is none.                          *)
(***************************************************************************)
isValidStepIndex(mdl, index) == index >= 0 /\ index < Len(mdl.steps)

\* NewTUIModel(p, resume), and m.maxLoops = *loop in main.
NewTUIModel(p, resuming, ckpt, loop) ==
    [pipeline |-> p,
     steps |-> [n \in DOMAIN p.Steps |->
                   IF resuming /\ ckpt # NoStep /\ n - 1 <= ckpt THEN "completed" ELSE "pending"],
     resuming |-> resuming,
     maxLoops |-> loop,
     currentLoop |-> 1,
     currentStep |-> 0,
     selectedStep |-> 0,
     pipelineEnded |-> FALSE]

\* Each handler gives the model afterwards and whether it returned the
\* command that yields startPipelineMsg.
Handled(mdl, cmd) == [m |-> mdl, cmd |-> cmd]

\* case tea.WindowSizeMsg, lines 191-238: the start is asked for at 235-237.
WindowSizeMsg(mdl) == Handled(mdl, mdl.currentStep = 0 /\ ~mdl.pipelineEnded)

\* restartPipeline, lines 967-998.
restartPipeline(mdl) ==
    Handled([mdl EXCEPT !.currentLoop = @ + 1,
                        !.steps = [n \in DOMAIN mdl.steps |-> "pending"],
                        !.currentStep = 0,
                        !.selectedStep = 0,
                        !.pipelineEnded = FALSE],
            TRUE)

\* Faulty variant: the limit is not looked at.
handleRestartKeyNoLimit(mdl) ==
    IF mdl.pipelineEnded THEN restartPipeline(mdl) ELSE Handled(mdl, FALSE)

\* handleRestartKey, lines 476-485.
handleRestartKey(mdl) ==
    IF mdl.pipelineEnded
    THEN IF mdl.maxLoops > 0 /\ mdl.currentLoop >= mdl.maxLoops
         THEN Handled(mdl, FALSE)
         ELSE restartPipeline(mdl)
    ELSE Handled(mdl, FALSE)

\* handleDownKey, lines 487-497, with the prompt popup closed.
handleDownKey(mdl) ==
    IF mdl.pipelineEnded /\ mdl.selectedStep < Len(mdl.steps) - 1
    THEN Handled([mdl EXCEPT !.selectedStep = @ + 1], FALSE)
    ELSE Handled(mdl, FALSE)

\* handleUpKey, lines 499-509, with the prompt popup closed.
handleUpKey(mdl) ==
    IF mdl.pipelineEnded /\ mdl.selectedStep > 0
    THEN Handled([mdl EXCEPT !.selectedStep = @ - 1], FALSE)
    ELSE Handled(mdl, FALSE)

\* case stepStartMsg, lines 282-292.
stepStartMsg(mdl, index) ==
    IF isValidStepIndex(mdl, index)
    THEN [mdl EXCEPT !.steps[index + 1] = "running", !.currentStep = index]
    ELSE mdl

\* case stepCompleteMsg, lines 312-332.
stepCompleteMsg(mdl, index, err) ==
    IF isValidStepIndex(mdl, index)
    THEN LET marked == [mdl EXCEPT !.steps[index + 1] = IF err THEN "failed" ELSE "completed"]
         IN  IF index = Len(mdl.steps) - 1
             THEN [marked EXCEPT !.pipelineEnded = TRUE, !.selectedStep = index]
             ELSE marked
    ELSE mdl

Without(seq, n) == SubSeq(seq, 1, n - 1) \o SubSeq(seq, n + 1, Len(seq))

InitTUI ==
    /\ InitEngine
    /\ call = NoCall
    /\ rets = <<>>
    /\ stream = NoStream
    /\ \E loop \in 0..MaxLoop, resuming \in BOOLEAN,
          ckpt \in {NoStep} \cup (0..(Len(PipeReview.Steps) - 1)) :
          /\ ~resuming => ckpt = NoStep
          /\ tui = [program |-> "running",
                    m |-> NewTUIModel(PipeReview, resuming, ckpt, loop),
                    cmds |-> 0,
                    engines |-> <<>>,
                    ckpt |-> ckpt,
                    resizes |-> 0,
                    ended |-> "none"]

\* What Update did with a message of the terminal.
Update(h) == tui' = [tui EXCEPT !.m = h.m, !.cmds = IF h.cmd THEN @ + 1 ELSE @]

\* The terminal reports its size: at the start, and when it is resized.
WindowSize ==
    /\ tui.program = "running"
    /\ tui.resizes < MaxResizes
    /\ tui' = [tui EXCEPT !.m = WindowSizeMsg(tui.m).m,
                          !.cmds = IF WindowSizeMsg(tui.m).cmd THEN @ + 1 ELSE @,
                          !.resizes = @ + 1]
    /\ UNCHANGED <<engineVars, call, rets, stream>>

\* The user presses r.
KeyRestart ==
    /\ tui.program = "running"
    /\ tui.m.currentLoop <= MaxLoop
    /\ Update(handleRestartKey(tui.m))
    /\ UNCHANGED <<engineVars, call, rets, stream>>

\* The user presses j or k.
KeyNavigate ==
    /\ tui.program = "running"
    /\ \/ Update(handleDownKey(tui.m))
       \/ Update(handleUpKey(tui.m))
    /\ UNCHANGED <<engineVars, call, rets, stream>>

\* case startPipelineMsg, lines 240-246: go runPipelineWithProgram(...). The
\* run begins as lines 163-180 say: after the checkpoint when it resumes.
StartPipeline ==
    /\ tui.program = "running"
    /\ tui.cmds > 0
    /\ LET begin == IF tui.m.resuming /\ tui.ckpt # NoStep THEN tui.ckpt + 1 ELSE 0
       IN  tui' = [tui EXCEPT !.cmds = @ - 1,
                              !.engines = Append(@, [at |-> begin, pc |-> "loop"])]
    /\ UNCHANGED <<engineVars, call, rets, stream>>

\* Lines 185-190 of a run: the condition of its step is false.
EngineSkips(e) ==
    /\ tui.engines[e].pc = "loop"
    /\ tui.engines[e].at < Len(tui.m.pipeline.Steps)
    /\ tui.m.pipeline.Steps[tui.engines[e].at + 1].When # ""
    /\ tui' = [tui EXCEPT !.engines[e].at = @ + 1]
    /\ UNCHANGED <<engineVars, call, rets, stream>>

\* Lines 211-213: onStart sends stepStartMsg.
EngineStartsStep(e) ==
    /\ tui.engines[e].pc = "loop"
    /\ tui.engines[e].at < Len(tui.m.pipeline.Steps)
    /\ tui' = [tui EXCEPT !.engines[e].pc = "agent",
                          !.m = stepStartMsg(tui.m, tui.engines[e].at)]
    /\ UNCHANGED <<engineVars, call, rets, stream>>

\* Lines 242-247: the agent failed; onComplete sends the error and Run returns.
EngineStepFails(e) ==
    /\ tui.engines[e].pc = "agent"
    /\ tui' = [tui EXCEPT !.engines = Without(@, e),
                          !.m = stepCompleteMsg(tui.m, tui.engines[e].at, TRUE),
                          !.ended = "failed"]
    /\ UNCHANGED <<engineVars, call, rets, stream>>

\* Lines 249-274: the agent returned; onComplete sends stepCompleteMsg. The
\* messages with the output, the lines and the file changes touch no field
\* of the model kept here.
EngineStepCompletes(e) ==
    /\ tui.engines[e].pc = "agent"
    /\ tui' = [tui EXCEPT !.engines[e].pc = "save",
                          !.m = stepCompleteMsg(tui.m, tui.engines[e].at, FALSE)]
    /\ UNCHANGED <<engineVars, call, rets, stream>>

\* Lines 277-288: SaveState, and on to the next index.
EngineSaves(e) ==
    /\ tui.engines[e].pc = "save"
    /\ tui' = [tui EXCEPT !.engines[e] = [at |-> tui.engines[e].at + 1, pc |-> "loop"],
                          !.ckpt = tui.engines[e].at]
    /\ UNCHANGED <<engineVars, call, rets, stream>>

\* Lines 290-292: the loop is over, ClearState, Run returns.
EngineReturns(e) ==
    /\ tui.engines[e].pc = "loop"
    /\ tui.engines[e].at >= Len(tui.m.pipeline.Steps)
    /\ tui' = [tui EXCEPT !.engines = Without(@, e), !.ckpt = NoStep, !.ended = "done"]
    /\ UNCHANGED <<engineVars, call, rets, stream>>

NextTUI ==
    \/ WindowSize
    \/ KeyRestart
    \/ KeyNavigate
    \/ StartPipeline
    \/ \E e \in DOMAIN tui.engines : EngineSkips(e)
    \/ \E e \in DOMAIN tui.engines : EngineStartsStep(e)
    \/ \E e \in DOMAIN tui.engines : EngineStepFails(e)
    \/ \E e \in DOMAIN tui.engines : EngineStepCompletes(e)
    \/ \E e \in DOMAIN tui.engines : EngineSaves(e)
    \/ \E e \in DOMAIN tui.engines : EngineReturns(e)

SpecTUI == InitTUI /\ [][NextTUI]_vars

(***************************************************************************)
(* Vocabulary of the properties.                                            *)
(***************************************************************************)
StatePath == getStateFile(pipeline.File)

\* Run has been called and its memory is there.
Started == pc \in {"loop", "agent", "done", "failed"}

\* Run found a state file that loads, and was asked to resume.
Resumed == Started /\ resume /\ StatePath \in DOMAIN atStart /\ atStart[StatePath].kind = "json"

\* The last-completed index of the record Run resumed from.
ResumedFrom == atStart[StatePath].last_completed_step

Last(seq) == seq[Len(seq)]

(***************************************************************************)
(* Resume.                                                                  *)
(***************************************************************************)
\* C1: in a run that resumes the record an earlier run wrote after step k,
\* no agent is spawned for a step with index <= k.
C1_NoRespawnOnResume ==
    Resumed => \A n \in 1..Len(spawned) : spawned[n] > ResumedFrom

C1_Witness ==
    /\ Resumed
    /\ ResumedFrom = 0
    /\ pipeline = PipeA
    /\ spawned = <<1, 2>>

\* C2: in a run that resumes after step k of the same pipeline, every later
\* step gets the run/skip decision and the composed prompt that the
\* uninterrupted run gives it.
C2_ResumeLikeUninterrupted ==
    uValid =>
        /\ condLog # <<>> => Last(condLog)[2] \in uCond
        /\ pc = "agent" =>
              fullPrompt \in ComposedPrompts(CurStep.Prompt, pipeline.Context, uOutputs)

\* C3: with resume and a state file that loads, the first step considered is
\* the recorded index + 1 and Outputs starts as the recorded snapshot; in
\* every other case the first step is 0 and Outputs starts empty.
C3_StartIndexAndOutputs ==
    Started =>
        /\ IF resume /\ StatePath \in DOMAIN atStart /\ atStart[StatePath].kind = "json"
           THEN /\ startStep = atStart[StatePath].last_completed_step + 1
                /\ initOutputs = atStart[StatePath].outputs
           ELSE /\ startStep = 0
                /\ initOutputs = EmptyMap
        /\ condLog # <<>> => condLog[1][1] = startStep

C3_Witness ==
    /\ Resumed
    /\ ResumedFrom = 0
    /\ initOutputs # EmptyMap
    /\ condLog # <<>>
    /\ condLog[1][1] = 1

(***************************************************************************)
(* Agent failure.                                                           *)
(***************************************************************************)
\* C4: when the agent of step i fails, step-completed(i, error) is notified,
\* Run returns an error at once, no step after i is evaluated or spawned, and
\* the checkpoint written for the last successful step is still on disk.
C4_FailFast ==
    failedAt # NoStep =>
        /\ pc = "failed"
        /\ result = "error"
        /\ silent => events # <<>> /\ Last(events) = Event("complete", failedAt, TRUE)
        /\ \A n \in 1..Len(condLog) : condLog[n][1] <= failedAt
        /\ \A n \in 1..Len(spawned) : spawned[n] <= failedAt
        /\ lastOk.saved =>
              /\ StatePath \in DOMAIN stateDir
              /\ stateDir[StatePath].kind = "json"
              /\ stateDir[StatePath].last_completed_step = lastOk.index
        /\ (lastOk.index = NoStep /\ Resumed) =>
              /\ StatePath \in DOMAIN stateDir
              /\ stateDir[StatePath] = atStart[StatePath]

C4_Witness ==
    /\ failedAt = 1
    /\ silent
    /\ lastOk.saved
    /\ lastOk.index = 0
    /\ pipeline = PipeA

\* C5: a failed agent invocation leaves Outputs, the artifact files and the
\* checkpoint as they were when the agent was spawned, and neither
\* step-output nor files-changed is notified for the step.
C5_FailureChangesNothing ==
    failedAt # NoStep =>
        /\ outputs = pre.outputs
        /\ artifactsDir = pre.artifactsDir
        /\ stateDir = pre.stateDir
        /\ \A n \in 1..Len(events) :
              events[n].index = failedAt => events[n].kind \notin {"output", "files"}
        /\ \A n \in 1..Len(writes) : writes[n] # failedAt

C5_Witness ==
    /\ failedAt = 1
    /\ silent
    /\ StatePath \in DOMAIN stateDir
    /\ ArtifactPath("plan.txt") \in DOMAIN artifactsDir
    /\ "analyze" \in DOMAIN outputs

(***************************************************************************)
(* The checkpoint.                                                          *)
(***************************************************************************)
\* C6: when the engine starts on step j and a step of this run has succeeded,
\* the state file records the latest successful step as last completed, with
\* that step's output in its Outputs.
C6_CheckpointAfterEachSuccess ==
    (pc = "loop" /\ i < NumSteps /\ lastOk.index # NoStep) =>
        /\ StatePath \in DOMAIN stateDir
        /\ stateDir[StatePath].kind = "json"
        /\ stateDir[StatePath].last_completed_step = lastOk.index
        /\ LET name == pipeline.Steps[lastOk.index + 1].Name
           IN  /\ name \in DOMAIN stateDir[StatePath].outputs
               /\ stateDir[StatePath].outputs[name] = lastOk.output

\* C7: when Run returns without error, there is no state file for the
\* pipeline.
C7_ClearedOnSuccess ==
    result = "ok" => ~StateExists(stateDir, pipeline.File)

\* C8: the step list is never subscripted at an index >= its length.
C8_StepReadsInRange ==
    readIdx < NumSteps

\* C9: the indices of the checkpoint writes of one run increase strictly,
\* and on resume each is greater than the index of the loaded record.
C9_WriteIndexIncreases ==
    /\ \A a, b \in 1..Len(writes) : a < b => writes[a] < writes[b]
    /\ Resumed => \A n \in 1..Len(writes) : writes[n] > ResumedFrom

C9_Witness ==
    /\ Resumed
    /\ ResumedFrom = 0
    /\ writes = <<1, 2>>

\* C10: after a checkpoint write failed, the run reports an error: it neither
\* goes on to a later step nor returns success.
C10_SaveFailureIsFatal ==
    saveErrAt # NoStep =>
        /\ \A n \in 1..Len(condLog) : condLog[n][1] <= saveErrAt
        /\ result # "ok"

(***************************************************************************)
(* The order of the steps.                                                  *)
(***************************************************************************)
\* The positions of the step-started notifications in events.
StartsAt == {n \in DOMAIN events : events[n].kind = "start"}

\* n is the step-started notification that follows the one at m.
NextStart(m, n) ==
    /\ m \in StartsAt /\ n \in StartsAt /\ m < n
    /\ \A k \in StartsAt : ~(m < k /\ k < n)

\* C11: the indices of the step-started notifications, and of the spawned
\* agents, increase strictly; between one step-started and the next there is
\* exactly one step-completed, and it carries the index of the first; and
\* whenever a condition is about to be evaluated, Outputs holds the output of
\* every step that completed before in the run, the latest one verbatim.
C11_StrictlySequential ==
    /\ \A m, n \in StartsAt : m < n => events[m].index < events[n].index
    /\ \A m, n \in DOMAIN spawned : m < n => spawned[m] < spawned[n]
    /\ \A m, n \in DOMAIN events :
          NextStart(m, n) =>
             /\ Cardinality({k \in (m + 1)..(n - 1) : events[k].kind = "complete"}) = 1
             /\ \A k \in (m + 1)..(n - 1) :
                   events[k].kind = "complete" =>
                      events[k].index = events[m].index /\ ~events[k].err
    /\ (pc = "loop" /\ i < NumSteps) =>
          /\ \A n \in DOMAIN writes :
                writes[n] < i /\ pipeline.Steps[writes[n] + 1].Name \in DOMAIN outputs
          /\ lastOk.index # NoStep =>
                outputs[pipeline.Steps[lastOk.index + 1].Name] = lastOk.output

\* Two steps ran in the TUI, a third is about to have its condition evaluated.
C11_Witness ==
    /\ silent /\ pc = "loop" /\ i < NumSteps
    /\ \E m, n \in DOMAIN events : NextStart(m, n)
    /\ Len(writes) = 2

\* C12: a step that evaluates a condition to false emits no notification,
\* spawns no process, loads no artifact, leaves Outputs, the state directory
\* and the artifacts directory as they are, and moves the loop to the next
\* index.
C12_SkipIsSilent ==
    [][(Len(condLog') = Len(condLog) + 1 /\ ~Last(condLog')[2]) =>
          /\ events' = events
          /\ spawned' = spawned
          /\ artifacts' = artifacts
          /\ outputs' = outputs
          /\ stateDir' = stateDir
          /\ artifactsDir' = artifactsDir
          /\ writes' = writes
          /\ i' = i + 1
          /\ pc' = "loop"]_vars

\* fix, which loads plan.txt, has just been skipped in the TUI while plan.txt
\* is there.
C12_Witness ==
    /\ silent /\ pc = "loop" /\ i = 2
    /\ Len(condLog) > 0 /\ Last(condLog) = <<1, FALSE>>
    /\ ArtifactPath("plan.txt") \in DOMAIN artifactsDir
(***************************************************************************)
(* The review pipeline, end to end.                                         *)
(***************************************************************************)
\* Run is on the review pipeline and Outputs holds text as the output of analyze.
AnalyzeSaid(text) ==
    /\ pipeline = PipeReview /\ Started
    /\ "analyze" \in DOMAIN outputs /\ outputs["analyze"] = text

QuotesAndWhitespace == {"'", "\"", " ", "\t", "\n", "\r"}

TrimQW(s) == Trim(s, QuotesAndWhitespace)

\* The call is a condition of the form <left> op <right>.
CondOf(op) == call.fn = "evaluateCondition" /\ call.op = op

\* The two sides of the condition after substitution, trimmed.
SideAfter(side, ord) == TrimQW(SubstOutputs(side, call.outs, ord))

\* C14: <left> contains <right> is true exactly when the right side, after
\* substitution and trimmed of quotes and whitespace, occurs in the trimmed
\* left side, letter case ignored.
C14_ContainsIsTrimmedSubstring ==
    CondOf("contains") =>
       \A k \in DOMAIN rets :
          \E ord \in KeyOrders(call.outs) :
             rets[k] = Contains(ToLower(SideAfter(call.left, ord)),
                                ToLower(SideAfter(call.right, ord)))

\* C15: {{a.output}} equals <value> is true exactly when the output of a,
\* trimmed of quotes and whitespace, is the trimmed value, character for
\* character.
C15_EqualsIsTrimmedEquality ==
    (CondOf("equals") /\ call.left = "{{a.output}}") =>
       \A k \in DOMAIN rets :
          \E ord \in KeyOrders(call.outs) :
             rets[k] = (TrimQW(call.outs["a"]) = SideAfter(call.right, ord))

\* The text has one of the three forms evaluateCondition knows.
Recognised(text) ==
    \/ Contains(text, " contains ")
    \/ Contains(text, " equals ")
    \/ text = "not_empty"
    \/ HasSuffix(text, " not_empty")

\* C16: an empty when is true, and so is a condition whose text after
\* substitution has none of the three forms.
C16_DefaultIsTrue ==
    call.fn = "evaluateCondition" =>
       \A k \in DOMAIN rets :
          (\/ CondText(call) = ""
           \/ \A ord \in KeyOrders(call.outs) :
                 ~Recognised(SubstOutputs(CondText(call), call.outs, ord)))
          => rets[k]

\* A condition of an unknown form, and the empty one, have been evaluated.
C16_Witness ==
    /\ CondOf("none") /\ call.left = "{{a.output}} matches yes"
    /\ call.outs["a"] = "done"
    /\ rets = <<TRUE, TRUE>>

\* C17: {{a.output}} not_empty is true exactly when the output of a is not
\* empty.
C17_NotEmptyTestsTheOutput ==
    (CondOf("not_empty") /\ call.left = "{{a.output}}") =>
       \A k \in DOMAIN rets : rets[k] = (call.outs["a"] # "")

(***************************************************************************)
(* LoadPipeline.                                                            *)
(***************************************************************************)
\* The positions of the steps without a name or without a prompt.
Offending(steps) == {n \in DOMAIN steps : steps[n].Name = "" \/ steps[n].Prompt = ""}

Invalid(def) == def.Agent.Cmd = "" \/ Len(def.Steps) = 0 \/ Offending(def.Steps) # {}

\* C18: when the artifacts directory can be made, loading fails exactly when
\* the definition is invalid, and then nothing is run; when only steps are at
\* fault the error names the position of the first of them.
C18_InvalidDefinitionIsRejected ==
    (call.fn = "LoadPipeline" /\ call.mkdirOk) =>
       \A k \in DOMAIN rets :
          /\ (rets[k].err # "") <=> Invalid(call.def)
          /\ rets[k].loaded <=> ~Invalid(call.def)
          /\ (call.def.Agent.Cmd # "" /\ Offending(call.def.Steps) # {}) =>
                LET first == CHOOSE n \in Offending(call.def.Steps) :
                                \A x \in Offending(call.def.Steps) : n <= x
                IN  HasPrefix(rets[k].err, "step " \o ToString(first))


(***************************************************************************)
(* Interpolation.                                                           *)
(***************************************************************************)
Placeholder(name) == "{{" \o name \o ".output}}"

\* The template read once from left to right, every placeholder of a name
\* of outs replaced by the entry of that name.
RECURSIVE ReplacedAtOnce(_, _)
ReplacedAtOnce(text, outs) ==
    IF Len(text) = 0 THEN ""
    ELSE LET hits == {s \in DOMAIN outs : HasPrefix(text, Placeholder(s))}
         IN  IF hits = {}
             THEN SubSeq(text, 1, 1) \o ReplacedAtOnce(Drop(text, 1), outs)
             ELSE LET s == CHOOSE x \in hits : TRUE
                  IN  outs[s] \o ReplacedAtOnce(Drop(text, Len(Placeholder(s))), outs)

BraceFree(text) == ~Contains(text, "{") /\ ~Contains(text, "}")

\* The step names the templates refer to.
TemplateNames == {"a", "b", "c", "step1"}

\* Every brace of the template belongs to a placeholder {{name.output}}.
WellFormed(text) == BraceFree(ReplacedAtOnce(text, [n \in TemplateNames |-> ""]))

\* No placeholder of a name of Outputs is left, and the result is the
\* template with each of them replaced by the output of its step.
FullyReplaced(res) ==
    /\ \A s \in DOMAIN call.outs : ~Contains(res, Placeholder(s))
    /\ res = ReplacedAtOnce(call.text, call.outs)

\* C19 as stated: whatever the output texts are, the interpolated template
\* holds no placeholder of a step of Outputs and every one was replaced by
\* the output of its step.
C19_NoPlaceholderLeft ==
    call.fn = "interpolate" => \A k \in DOMAIN rets : FullyReplaced(rets[k])

\* C19, amended: the same when no output text holds a brace and every brace
\* of the template belongs to a placeholder.
C19_NoPlaceholderLeftBraceFree ==
    (/\ call.fn = "interpolate"
     /\ \A s \in DOMAIN call.outs : BraceFree(call.outs[s])
     /\ WellFormed(call.text))
    => \A k \in DOMAIN rets : FullyReplaced(rets[k])

\* A template that names a twice has been interpolated against plain outputs.
C19_Witness ==
    /\ call.fn = "interpolate" /\ call.text = "Fix {{a.output}} then {{a.output}}"
    /\ call.outs = OutputsAB("X", "Y")
    /\ rets = <<"Fix X then X", "Fix X then X">>

\* C20: two evaluations of the same call of interpolate or of
\* evaluateCondition return the same.
C20_SameInputSameResult ==
    call.fn \in {"interpolate", "evaluateCondition"} =>
       \A j, k \in DOMAIN rets : rets[j] = rets[k]

\* A context value as its placeholder is to show it: one "- item" line per
\* item of a list, the text of a scalar.
Rendered(val) ==
    IF val.list THEN JoinWith([k \in 1..Len(val.v) |-> "- " \o val.v[k]], "\n") ELSE val.v

\* The text with the placeholder of every key of ord replaced.
RECURSIVE WithContext(_, _, _)
WithContext(text, global, ord) ==
    IF Len(ord) = 0 THEN text
    ELSE WithContext(ReplaceAll(text, "{{context." \o Head(ord) \o "}}", Rendered(global[Head(ord)])),
                     global, Tail(ord))

\* C21: a template interpolated against a context has {{context.k}} replaced
\* for every key k: by the "- item" lines of a list, by the text of a scalar.
C21_ContextKeysReplaced ==
    (call.fn = "interpolate" /\ DOMAIN call.global # {}) =>
       \A k \in DOMAIN rets :
          \E ord \in KeyOrders(call.global) :
             rets[k] = WithContext(call.text, call.global, ord)

(***************************************************************************)
(* Artifacts in the run.                                                    *)
(***************************************************************************)
\* The agent of a step with load_from is running, and the file was there
\* when the step began.
LoadedFor ==
    /\ pc = "agent" /\ CurStep.LoadFrom # ""
    /\ ~loadArtifact(pre.artifactsDir, CurStep.LoadFrom).err

\* C22: when the artifact of a step was loaded, the prompt of the step holds
\* no {{artifact.X}} for it any more: each was replaced by the content.
C22_ArtifactPlaceholderReplaced ==
    LoadedFor =>
       LET name == ArtifactName(CurStep.LoadFrom)
           content == loadArtifact(pre.artifactsDir, CurStep.LoadFrom).content
       IN  prompt = ReplaceAll(CurStep.Prompt, "{{artifact." \o name \o "}}", content)

\* C23: a step whose artifact does not load still has its agent spawned; the
\* artifacts map and Outputs stay as they were, and Run has not returned.
C23_LoadFailureNotFatal ==
    [][(/\ Len(spawned') = Len(spawned) + 1
        /\ CurStep.LoadFrom # ""
        /\ loadArtifact(artifactsDir, CurStep.LoadFrom).err) =>
          /\ Last(spawned') = i
          /\ pc' = "agent"
          /\ result' = "none"
          /\ artifacts' = artifacts
          /\ outputs' = outputs]_vars

\* analyze's artifact was not written, fix ran without it and the run ended
\* well.
C23_Witness ==
    /\ pipeline = PipeA /\ ~resume /\ pc = "done" /\ result = "ok"
    /\ spawned = <<0, 1>>
    /\ DOMAIN artifacts = {}

(***************************************************************************)
(* The artifact store.                                                      *)
(***************************************************************************)
AllSavesWork == \A k \in DOMAIN call.saves : call.saves[k].ok

\* What a load gives when the saves at the positions hits are those of its
\* file: the content of the last of them, an error when there is none.
LatestOf(hits) ==
    IF hits = {} THEN [err |-> TRUE, content |-> ""]
    ELSE LET last == CHOOSE k \in hits : \A x \in hits : x <= k
         IN  [err |-> FALSE, content |-> call.saves[last].content]

\* C24 as stated: after saves that all worked, a load returns the content of
\* the latest save under its own name, whatever was saved under other names.
C24_RoundTripByName ==
    (call.fn = "artifacts" /\ AllSavesWork) =>
       \A k \in DOMAIN rets :
          rets[k] = LatestOf({s \in DOMAIN call.saves : call.saves[s].name = call.load})

\* C24, amended: the same with the saves under every name that filepath.Join
\* turns into the path of the loaded name.
C24_RoundTripByPath ==
    (call.fn = "artifacts" /\ AllSavesWork) =>
       \A k \in DOMAIN rets :
          rets[k] = LatestOf({s \in DOMAIN call.saves :
                                ArtifactPath(call.saves[s].name) = ArtifactPath(call.load)})

\* plan.txt was saved twice and loaded back.
C24_Witness ==
    /\ call.fn = "artifacts" /\ call.load = "plan.txt"
    /\ call.saves = <<[name |-> "plan.txt", content |-> "hello", ok |-> TRUE],
                      [name |-> "plan.txt", content |-> "bye", ok |-> TRUE]>>
    /\ rets = <<[err |-> FALSE, content |-> "bye"]>>

(***************************************************************************)
(* The text sent to the agent.                                              *)
(***************************************************************************)
\* C25: the text has the global section, then the blocks of Outputs in the
\* order in which the entries were added, then the task; and two compositions
\* from the same context and Outputs are the same text.
C25_BlocksInInsertionOrder ==
    call.fn = "buildPrompt" =>
       /\ \A k \in DOMAIN rets :
             \E g \in KeyOrders(call.global) :
                rets[k] = buildPrompt(call.global, call.outs, call.task, g, call.added)
       /\ \A j, k \in DOMAIN rets : rets[j] = rets[k]

(***************************************************************************)
(* Streaming.                                                               *)
(***************************************************************************)
\* The lines of a text in which every line ends with a newline.
RECURSIVE LinesOf(_)
LinesOf(text) ==
    LET k == Index(text, "\n")
    IN  IF k < 0 THEN (IF text = "" THEN <<>> ELSE <<text>>)
        ELSE <<SubSeq(text, 1, k)>> \o LinesOf(Drop(text, k + 1))

Count(seq, x) == Cardinality({n \in DOMAIN seq : seq[n] = x})

SameLines(a, b) ==
    Len(a) = Len(b) /\ \A n \in DOMAIN a : Count(a, a[n]) = Count(b, a[n])

Delivered ==
    LET lines == SelectSeq(stream.log, LAMBDA e : e.kind = "line")
    IN  [n \in DOMAIN lines |-> lines[n].text]

Written ==
    [n \in DOMAIN call.stdout |-> stripANSI(call.stdout[n])]
       \o [n \in DOMAIN call.stderr |-> stripANSI(call.stderr[n])]

Returned == stream.main \notin {"none", "wait"}

\* C26: once runAgentWithStreaming has returned, both readers have finished,
\* the returned text is made of the sanitized lines that went through the line
\* callback, each once and with its newline, and these are all the lines the
\* process wrote to its standard output and standard error.
C26_AggregateIsEveryLine ==
    Returned =>
       /\ \A r \in Readers : stream.rd[r].pc = "end"
       /\ SameLines(LinesOf(rets[1]), Delivered)
       /\ SameLines(LinesOf(rets[1]), Written)

\* C27: a line of the step is notified after the step's start and before its
\* step-output and step-completed, never after the completion or after the
\* start of the next step.
C27_LinesInsideTheStep ==
    stream.main # "none" =>
       \A n, q \in DOMAIN stream.log :
          (n < q /\ stream.log[q].kind = "line") =>
             stream.log[n].kind \in {"start", "line"}

(***************************************************************************)
(* Outputs.                                                                 *)
(***************************************************************************)
StepNames == {pipeline.Steps[k].Name : k \in DOMAIN pipeline.Steps}

\* The names of the steps this run has executed successfully.
ExecutedNames == {pipeline.Steps[writes[k] + 1].Name : k \in DOMAIN writes}

\* C28: Outputs holds the entries it was restored with and one entry under
\* the name of each step executed successfully so far, and nothing else: no
\* key that is not the name of a step, and no entry is lost.
C28_OutputsKeyedByStepName ==
    Started =>
       /\ DOMAIN outputs = DOMAIN initOutputs \cup ExecutedNames
       /\ DOMAIN outputs \subseteq StepNames

(***************************************************************************)
(* File changes.                                                            *)
(***************************************************************************)
Reports(changes, entry) == \E n \in DOMAIN changes : changes[n] = entry

\* The entries of a change list that are about a path.
About(changes, path) ==
    {n \in DOMAIN changes : Len(changes[n]) >= 2 /\ Drop(changes[n], 2) = path}

\* C29: the change list has `+ p` exactly for the paths only in the later
\* snapshot, `- p` exactly for the paths only in the earlier one, `M p`
\* exactly for the paths in both with a strictly later modification time;
\* a path is listed at most once, and not at all when its time is unchanged.
C29_ChangesBySnapshots ==
    call.fn = "detectFileChanges" =>
       LET before == scanDirectory(call.treeBefore)
           after == scanDirectory(call.tree)
       IN  \A k \in DOMAIN rets : \A p \in SourceFiles :
              /\ Reports(rets[k], "+ " \o p) <=> (p \in DOMAIN after /\ p \notin DOMAIN before)
              /\ Reports(rets[k], "- " \o p) <=> (p \in DOMAIN before /\ p \notin DOMAIN after)
              /\ Reports(rets[k], "M " \o p)
                    <=> (p \in DOMAIN before /\ p \in DOMAIN after /\ after[p] > before[p])
              /\ Cardinality(About(rets[k], p)) <= 1
              /\ (p \in DOMAIN before /\ p \in DOMAIN after /\ after[p] = before[p])
                    => About(rets[k], p) = {}

\* main.go was touched, src/a.go was created and go.mod was deleted.
C29_Witness ==
    /\ call.fn = "detectFileChanges"
    /\ call.treeBefore = [f \in {"main.go", "go.mod"} |-> 1]
    /\ call.tree = [f \in {"main.go", "src/a.go"} |-> 2]
    /\ rets = << <<"M main.go", "+ src/a.go", "- go.mod">> >>

HiddenOrCache(path) ==
    LET parts == Components(path)
    IN  \/ \E n \in DOMAIN parts : HasPrefix(parts[n], ".")
        \/ \E n \in 1..(Len(parts) - 1) : parts[n] = "node_modules"

\* C30: the snapshot of the tree rooted at `.` has no path with a component
\* that starts with a dot and no path below a node_modules directory, at the
\* top level of the tree as at any depth.
C30_NoHiddenPathInSnapshot ==
    call.fn = "scanDirectory" =>
       \A k \in DOMAIN rets : \A p \in DOMAIN rets[k] : ~HiddenOrCache(p)

(***************************************************************************)
(* Sanitized output.                                                        *)
(***************************************************************************)
\* The text holds the three bytes of a spinner glyph.
HasSpinner(s) ==
    \E n \in 1..(Len(s) - 2) : DecodeRune(SubSeq(s, n, n + 2)) \in {<<g, 3>> : g \in SpinnerRunes}

Sanitized(s) ==
    /\ \A n \in DOMAIN s : s[n] \notin ((0..31) \cup {127}) \ {TAB, LF}
    /\ ~HasSpinner(s)

\* C31: the captured output that goes into Outputs and every line given to
\* the line callback hold no escape character, no carriage return, no spinner
\* glyph and no control character but newline and tab, in both modes.
C31_OutputIsSanitized ==
    call.fn = "runAgent" =>
       \A k \in DOMAIN rets :
          /\ Sanitized(rets[k].output)
          /\ \A n \in DOMAIN rets[k].lines : Sanitized(rets[k].lines[n])

(***************************************************************************)
(* The command line.                                                        *)
(***************************************************************************)
Cleaning == call.fn = "main" /\ call.clean

\* C32: started with --clean, the program clears the saved state of the
\* pipeline file and then runs the pipeline: Run is called, finds no record
\* of the file and begins at the first step.
C32_CleanThenRuns ==
    (Cleaning /\ pc # "fatal") =>
       /\ pc = "ready" \/ Started
       /\ Started => (getStateFile(call.file) \notin DOMAIN atStart /\ startStep = 0)

(***************************************************************************)
(* The dashboard.                                                           *)
(***************************************************************************)
Dashboard == tui.program = "running"

\* C33: with a loop limit N > 0 the loop counter never exceeds N, whatever
\* keys are pressed and whatever the engine reports; the counter changes only
\* by a restart, which is taken only in the ended state and adds exactly one.
C33_LoopLimitEnforced ==
    /\ [](Dashboard /\ tui.m.maxLoops > 0 => tui.m.currentLoop <= tui.m.maxLoops)
    /\ [][(Dashboard /\ tui'.m.currentLoop # tui.m.currentLoop) =>
             /\ tui.m.pipelineEnded
             /\ tui'.m.currentLoop = tui.m.currentLoop + 1]_vars

\* The limit is 2, the second loop has ended, and r has no effect any more.
C33_Witness ==
    /\ Dashboard
    /\ tui.m.maxLoops = 2 /\ tui.m.currentLoop = 2 /\ tui.m.pipelineEnded

\* Every run the dashboard started has returned and no start is in flight.
RunsOver == Dashboard /\ tui.ended # "none" /\ tui.engines = <<>> /\ tui.cmds = 0

\* C34: when the engine run is over - all steps done, a step failed, or the
\* last step skipped - and the dashboard has taken every message of it, the
\* dashboard is in the ended state, where j/k select a step and r restarts.
C34_EndedWhenRunIsOver == RunsOver => tui.m.pipelineEnded

\* C35: at most one engine run is active at any time.
C35_OneRunAtATime == Dashboard => Len(tui.engines) <= 1

(***************************************************************************)
(* The aggregate buffer of a streaming invocation.                          *)
(***************************************************************************)
\* The reader is inside output.WriteString.
Appending(r) == stream.rd[r].pc = "store"

\* The reader will append again: it holds a line, or its pipe has one.
AppendsLater(r) ==
    \/ stream.rd[r].pc \in {"load", "store"}
    \/ stream.rd[r].pc # "end" /\ Len(stream.pipe[r]) > 0

\* C36: the two readers are never inside an append at the same time, and
\* when the buffer has been read for the return value no reader appends any
\* more.
C36_BufferAccessesDoNotOverlap ==
    stream.main # "none" =>
       /\ ~(Appending("stdout") /\ Appending("stderr"))
       /\ Returned => \A r \in Readers : ~AppendsLater(r)

(***************************************************************************)
(* The checkpoint store and the pipeline files.                             *)
(***************************************************************************)
\* C37: an operation on the record of one pipeline file neither returns nor
\* changes the record of another pipeline file, whatever the two are called:
\* a load of the other file finds no record, and the saved record loads back
\* as it was written.
C37_RecordsDoNotInterfere ==
    call.fn = "state" =>
       \A k \in DOMAIN rets :
          /\ call.op = "load" => rets[k].op.err
          /\ ~rets[k].again.err
          /\ rets[k].again.state = Checkpoint(call.saved, 0, [analyze |-> "Issue found"])

(***************************************************************************)
(* Whose checkpoint a run resumes.                                          *)
(***************************************************************************)
\* C38: a run without resume starts at step 0 with empty Outputs; a run that
\* resumes continues from a record that the launch before it wrote, never
\* from one that an older launch left behind.
C38_ResumesTheLatestRun ==
    Started =>
       /\ ~resume => (startStep = 0 /\ initOutputs = EmptyMap)
       /\ (Resumed /\ writes = <<>>) => ckptMem[StatePath].run = runs - 1

(***************************************************************************)
(* Termination of Run.                                                      *)
(***************************************************************************)
\* How many engine steps Run can still take: two for every index that is
\* left (the condition, then the agent), and the step that returns.
Rank ==
    CASE pc = "loop" -> 2 * Max(NumSteps - i, 0) + 2
      [] pc = "agent" -> 2 * Max(NumSteps - i, 0) + 1
      [] OTHER -> 0

\* The indices Run has considered so far, in the order it considered them.
Considered == [k \in DOMAIN condLog |-> condLog[k][1]]

\* C39: Run considers the indices startStep, startStep + 1, ... one after
\* the other, each once; it starts an agent at most once per index; it
\* returns an error exactly at the first agent failure, which is the last
\* index it considered, and returns normally only when no index is left and
\* no agent failed; a crash before the loop considers no index; and every
\* step of the engine lowers Rank, so Run ends after finitely many steps
\* once each agent invocation returns.
C39_RunTerminatesInOrder ==
    /\ [](/\ \A k \in DOMAIN Considered : Considered[k] = startStep + k - 1
          /\ \A k \in DOMAIN spawned :
                /\ \E n \in DOMAIN Considered : spawned[k] = Considered[n]
                /\ \A n \in DOMAIN spawned : n < k => spawned[n] < spawned[k]
          /\ pc = "agent" => (failedAt = NoStep /\ Last(spawned) = i /\ Last(Considered) = i)
          /\ pc = "loop" => (failedAt = NoStep /\ Len(condLog) = i - startStep)
          /\ pc = "failed" =>
                /\ failedAt = Last(Considered)
                /\ failedAt = Last(spawned)
                /\ failedAt < NumSteps
          /\ pc = "done" =>
                /\ failedAt = NoStep
                /\ i >= NumSteps
                /\ Len(condLog) = Max(NumSteps - startStep, 0)
          /\ pc = "panic" => condLog = <<>>)
    /\ [][(pc \in {"loop", "agent"}) => Rank' < Rank]_vars

\* A resumed run considered the two indices that were left and returned.
C39_Witness ==
    /\ pc = "done"
    /\ Resumed
    /\ startStep = 1
    /\ Considered = <<1, 2>>

(***************************************************************************)
(* The agent of a step after validation.                                    *)
(***************************************************************************)
\* C40: when the LoadPipeline that validates returned no error, the agent
\* picked for every step, the step's own or else the pipeline's, has a
\* command that is not the empty string.
C40_ResolvedAgentHasCmd ==
    (call.fn = "agent" /\ call.validates) =>
       \A k \in DOMAIN rets :
          rets[k].err = "" => \A s \in DOMAIN rets[k].agents : rets[k].agents[s].Cmd # ""
====
